---- MODULE Spec2Model ----
(***************************************************************************)
(* Model of the normalization-and-matching core of yakkiho-checker         *)
(* (src/data_processing.py).                                               *)
(*                                                                         *)
(* Characters are Unicode code points (integers); a Python str is a        *)
(* sequence of code points.  Offsets are 0-based as in the source; the     *)
(* character at Python index i of a string s is s[i + 1] here.             *)
(***************************************************************************)
EXTENDS Integers, Sequences, FiniteSets, TLC

VARIABLES
    pc,            \* which operation has completed: "init" before any
    ad_text,       \* the text handed to the operation
    ng_words,      \* the rule map: a dict in insertion order, as a sequence
    template,      \* expand_placeholders: the text argument
    placeholders,  \* expand_placeholders: the table, in iteration order
    PLACEHOLDER_VALUES,  \* the table the module imports from config
    norm_out,      \* normalize_text_for_matching(ad_text)
    renorm_out,    \* normalize_text_for_matching(norm_out.text)
    mask_out,      \* mask_safe_expressions(ad_text, ng_words)
    detect_out,    \* check_advertisement_with_categories_masking(...)
    expand_out,    \* expand_placeholders(template, placeholders)
    phrase_in,     \* compile_ng_word: the phrase argument
    subject,       \* the text a compiled pattern is searched in
    compile_out,   \* compile_ng_word(phrase)
    search_out,    \* the matches of the compiled pattern in subject
    cache,         \* lru_cache of compile_ng_word: entries, least recent first
    cache_info,    \* lru_cache of compile_ng_word: the hits and misses counted
    cache_event,   \* what the last call did to the cache
    subcategory_data,  \* extract_ng_data_from_subcategories: the argument
    extract_kwargs,    \* the keyword arguments the caller passes with it
    extract_out,       \* extract_ng_data_from_subcategories(...)
    context_args,      \* check_ingredient_context: the arguments
    context_out,       \* check_ingredient_context(...)
    highlight_args,    \* highlight_prohibited_phrases: the arguments
    highlight_out,     \* highlight_prohibited_phrases(...)
    rule_db,           \* ui: the version of NGword.json on disk
    st_cache,          \* ui: st.cache_data of get_ng_words, no or one value
    session,           \* ui: each session's script run (render_main)
    merge_args,        \* merge_violations: the arguments
    merge_out,         \* merge_violations(violations, tolerance)
    same_args,         \* merge_same_ng_violations: the argument
    same_out,          \* merge_same_ng_violations(violations)
    session_state,     \* st.session_state: feedback_area and feedback_message
    feedback_call,     \* submit_feedback: the last call, its request and response
    flag_args,         \* replace_flags: the section and the excel cache
    flag_out,          \* replace_flags(section, excel_cache), or what it raised
    file_args,         \* process_all: the input directory and the excel cache
    file_out           \* process_all(...): the errors returned, the files written

coreVars == <<ad_text, ng_words, template, placeholders, PLACEHOLDER_VALUES,
              norm_out, renorm_out, mask_out, detect_out, expand_out>>

compileVars == <<phrase_in, subject, compile_out, search_out>>

cacheVars == <<cache, cache_info, cache_event>>

extractVars == <<subcategory_data, extract_kwargs, extract_out>>

contextVars == <<context_args, context_out>>

highlightVars == <<highlight_args, highlight_out>>

uiVars == <<rule_db, st_cache, session>>

mergeVars == <<merge_args, merge_out>>

sameVars == <<same_args, same_out>>

earlyVars == <<coreVars, compileVars, cacheVars, extractVars, contextVars, highlightVars,
               uiVars>>

feedbackVars == <<session_state, feedback_call>>

flagVars == <<flag_args, flag_out, file_args, file_out>>

lateVars == <<mergeVars, sameVars, feedbackVars, flagVars>>

restVars == <<compileVars, cacheVars, extractVars, contextVars, highlightVars, uiVars,
              lateVars>>

vars == <<pc, coreVars, restVars>>

(***************************************************************************)
(* Bounds of the model.                                                    *)
(***************************************************************************)
MaxNormLen == 3
MaxTextLen == 3
MaxRules == 3
MaxMaskLen == 3
MaxMaskRules == 2
MaxValues == 2

(***************************************************************************)
(* Sequence helpers (Python str / list primitives).                        *)
(***************************************************************************)
RECURSIVE SeqsUpTo(_, _)
SeqsUpTo(S, n) ==
    IF n = 0 THEN {<<>>}
    ELSE LET shorter == SeqsUpTo(S, n - 1)
         IN  shorter \cup {Append(s, c) : s \in {t \in shorter : Len(t) = n - 1}, c \in S}

\* s[i:j] with 0 <= i, j already clamped by the caller
Slice(s, i, j) == IF j <= i THEN <<>> ELSE SubSeq(s, i + 1, j)

\* s[i:j] as Python computes it for 0 <= i: j is clamped to len(s)
PySlice(s, i, j) == Slice(s, i, IF j > Len(s) THEN Len(s) ELSE j)

\* t occurs in s at 0-based offset i
OccursAt(s, t, i) ==
    /\ i >= 0
    /\ i + Len(t) <= Len(s)
    /\ \A k \in 1..Len(t) : s[i + k] = t[k]

\* t in s
Contains(s, t) == \E i \in 0..Len(s) : OccursAt(s, t, i)

RECURSIVE ReplaceFrom(_, _, _, _)
ReplaceFrom(s, t, v, i) ==
    IF i >= Len(s) THEN <<>>
    ELSE IF OccursAt(s, t, i) THEN v \o ReplaceFrom(s, t, v, i + Len(t))
    ELSE <<s[i + 1]>> \o ReplaceFrom(s, t, v, i + 1)

\* s.replace(t, v) for a non-empty t: the non-overlapping occurrences, left to right
Replace(s, t, v) == ReplaceFrom(s, t, v, 0)

RECURSIVE Flatten(_)
Flatten(ss) == IF ss = <<>> THEN <<>> ELSE Head(ss) \o Flatten(Tail(ss))

(***************************************************************************)
(* Code points.                                                            *)
(***************************************************************************)
SPACE == 32
PERCENT == 37
COMMA == 44
PERIOD == 46
LBRACK == 91
BACKSLASH == 92
RBRACK == 93
CARET == 94
LBRACE == 123
RBRACE == 125
FILLER == 9633         \* U+25A1 WHITE SQUARE
IDEOGRAPHIC_SPACE == 12288
FW_PERCENT == 65285
FW_COMMA == 65292
FW_PERIOD == 65294
HIRA_FIRST == 12353    \* U+3041
HIRA_LAST == 12435     \* U+3093
KATA_FIRST == 12449    \* U+30A1
KATA_LAST == 12531     \* U+30F3
KATA_SHIFT == 96       \* 0x60

\* str.maketrans tables of the module
FW_DIGITS(c) == IF c >= 65296 /\ c <= 65305 THEN c - 65248 ELSE c
FW_UPPER(c) == IF c >= 65313 /\ c <= 65338 THEN c - 65248 ELSE c
FW_LOWER(c) == IF c >= 65345 /\ c <= 65370 THEN c - 65248 ELSE c
FW_PUNCT(c) ==
    CASE c = FW_PERIOD -> PERIOD
      [] c = FW_COMMA -> COMMA
      [] c = FW_PERCENT -> PERCENT
      [] c = IDEOGRAPHIC_SPACE -> SPACE
      [] OTHER -> c

\* unicodedata.normalize("NFC", ch) of one character: U+212B ANGSTROM SIGN has a
\* singleton decomposition, U+0958 DEVANAGARI LETTER QA is a composition
\* exclusion and stays decomposed into two code points, every other character
\* of the model's alphabets is NFC-stable.
NFC(c) ==
    CASE c = 8491 -> <<197>>
      [] c = 2392 -> <<2325, 2364>>
      [] OTHER -> <<c>>

IsAscii(s) == \A k \in 1..Len(s) : s[k] < 128
\* mutant of AsciiLower: str.swapcase instead of str.lower
AsciiSwapCase(c) ==
    IF c >= 65 /\ c <= 90 THEN c + 32
    ELSE IF c >= 97 /\ c <= 122 THEN c - 32 ELSE c

AsciiLower(c) == IF c >= 65 /\ c <= 90 THEN c + 32 ELSE c

\* str.isspace of one code point
IsSpaceChar(c) ==
    \/ c \in 9..13
    \/ c \in 28..32
    \/ c \in {133, 160, 5760, 8232, 8233, 8239, 8287, IDEOGRAPHIC_SPACE}
    \/ c \in 8192..8202

\* str.isspace: non-empty and every character is whitespace
IsSpace(s) == Len(s) > 0 /\ \A k \in 1..Len(s) : IsSpaceChar(s[k])

TranslateChar(c) == FW_PUNCT(FW_LOWER(FW_UPPER(FW_DIGITS(c))))

_basic_normalize_char(ch) ==
    LET nfc == NFC(ch)
        half == [k \in 1..Len(nfc) |-> TranslateChar(nfc[k])]
    IN  IF IsAscii(half) THEN [k \in 1..Len(half) |-> AsciiLower(half[k])] ELSE half

(***************************************************************************)
(* normalize_text_for_matching                                             *)
(***************************************************************************)
\* 'ァ' <= ch_norm <= 'ン' : Python compares the strings lexicographically
InKatakanaRange(s) ==
    /\ Len(s) > 0
    /\ s[1] >= KATA_FIRST
    /\ \/ s[1] < KATA_LAST
       \/ s[1] = KATA_LAST /\ Len(s) = 1

\* One pass of the loop body for the character ch at orig_idx.
\* ord() of a string that is not one character raises TypeError.
RECURSIVE NormLoop(_, _, _, _)
NormLoop(text, orig_idx, normalized_chars, mapping) ==
    IF orig_idx >= Len(text)
    THEN [raised |-> "none", text |-> Flatten(normalized_chars), mapping |-> mapping]
    ELSE LET basic == _basic_normalize_char(text[orig_idx + 1])
             kata == InKatakanaRange(basic)
         IN  IF kata /\ Len(basic) # 1
             THEN [raised |-> "TypeError", text |-> <<>>, mapping |-> <<>>]
             ELSE LET ch_norm == IF kata THEN <<basic[1] - KATA_SHIFT>> ELSE basic
                  IN  IF IsSpace(ch_norm)
                      THEN NormLoop(text, orig_idx + 1, normalized_chars, mapping)
                      ELSE NormLoop(text, orig_idx + 1,
                                    Append(normalized_chars, ch_norm),
                                    Append(mapping, orig_idx))

\* mutant of normalize_text_for_matching: the map records the index in the
\* normalized text (len(mapping)) instead of orig_idx
normalize_text_IndexOfNormalized(text) ==
    LET r == NormLoop(text, 0, <<>>, <<>>)
    IN  [r EXCEPT !.mapping = [k \in 1..Len(r.mapping) |-> k - 1]]

normalize_text_for_matching(text) == NormLoop(text, 0, <<>>, <<>>)

NoNorm == [raised |-> "unset", text |-> <<>>, mapping |-> <<>>]
NoMask == [raised |-> "unset", text |-> <<>>]
NoDetect == [raised |-> "unset", items |-> <<>>, accepted |-> <<>>, masked |-> <<>>]
NoExpand == <<>>
NoCompile == [raised |-> "unset", pattern |-> <<>>]
NoSearch == <<>>

\* no call of compile_ng_word is made
CompileIdle ==
    /\ phrase_in = <<>>
    /\ subject = <<>>
    /\ compile_out = NoCompile
    /\ search_out = NoSearch

NoCacheInfo == [hits |-> 0, misses |-> 0]

\* the pattern cache as it is when the module is imported
CacheIdle ==
    /\ cache = <<>>
    /\ cache_info = NoCacheInfo
    /\ cache_event = "none"

NoKwargs == [selected_usage |-> <<>>, selected_product |-> <<>>, category_type |-> <<>>]
NoExtract == [raised |-> "unset", ng_words |-> <<>>]

\* no call of extract_ng_data_from_subcategories is made
ExtractIdle ==
    /\ subcategory_data = <<>>
    /\ extract_kwargs = NoKwargs
    /\ extract_out = NoExtract

NoContext == [raised |-> "unset", violations |-> <<>>]

\* no call of check_ingredient_context is made
ContextIdle ==
    /\ context_args = <<>>
    /\ context_out = NoContext

\* no call of highlight_prohibited_phrases is made
HighlightIdle ==
    /\ highlight_args = <<>>
    /\ highlight_out = <<>>

\* the app is not running
UiIdle ==
    /\ rule_db = "old"
    /\ st_cache = <<>>
    /\ session = <<>>

\* no call of merge_violations is made
MergeIdle ==
    /\ merge_args = <<>>
    /\ merge_out = <<>>

\* no call of merge_same_ng_violations is made
SameIdle ==
    /\ same_args = <<>>
    /\ same_out = <<>>

\* the functions that are not running, and the states they rest in
EarlyIdle ==
    /\ CompileIdle /\ CacheIdle /\ ExtractIdle /\ ContextIdle /\ HighlightIdle /\ UiIdle

NoFeedbackCall == [area |-> <<>>, posted |-> <<>>, response |-> "none", raised |-> "unset"]

\* the sidebar as render_sidebar first draws it, and no call of submit_feedback
FeedbackIdle ==
    /\ session_state = [feedback_area |-> <<>>, feedback_message |-> ""]
    /\ feedback_call = NoFeedbackCall

\* no call of replace_flags or process_all is made
FlagIdle ==
    /\ flag_args = <<>>
    /\ flag_out = <<>>
    /\ file_args = <<>>
    /\ file_out = <<>>

\* none of the ui helpers and none of the flag tools is called
LateIdle == MergeIdle /\ SameIdle /\ FeedbackIdle /\ FlagIdle

IdleRest ==
    /\ CompileIdle /\ CacheIdle /\ ExtractIdle /\ ContextIdle /\ HighlightIdle /\ UiIdle
    /\ LateIdle

\* the table of the docstring example: TUKARE -> ["の疲れ", "に出た疲れ"]
TUKARE == <<84, 85, 75, 65, 82, 69>>
TukareTable ==
    << [name |-> TUKARE,
        values |-> << <<12398, 30130, 12428>>,
                      <<12395, 20986, 12383, 30130, 12428>> >>] >>

(***************************************************************************)
(* Inputs of the normalization runs.                                       *)
(***************************************************************************)
\* A, a, space, ideographic space, ア, あ, ヴ, １, Ａ, U+0958, U+212B
NormChars == {65, 97, 32, 12288, 12450, 12354, 12532, 65297, 65313, 2392, 8491}

\* "たった１日　で" (test_normalize_text_for_matching, spec scenario)
TattaText == <<12383, 12387, 12383, 65297, 26085, 12288, 12391>>
TattaNorm == <<12383, 12387, 12383, 49, 26085, 12391>>
TattaMap == <<0, 1, 2, 3, 4, 6>>

NormTexts == SeqsUpTo(NormChars, MaxNormLen) \cup {TattaText}

InitNormalize ==
    /\ pc = "init"
    /\ PLACEHOLDER_VALUES = TukareTable
    /\ IdleRest
    /\ ad_text \in NormTexts
    /\ ng_words = <<>>
    /\ template = <<>>
    /\ placeholders = <<>>
    /\ norm_out = NoNorm
    /\ renorm_out = NoNorm
    /\ mask_out = NoMask
    /\ detect_out = NoDetect
    /\ expand_out = NoExpand

\* a call normalize_text_for_matching(ad_text)
Normalize ==
    /\ pc = "init"
    /\ norm_out' = normalize_text_for_matching(ad_text)
    /\ pc' = "normalized"
    /\ UNCHANGED restVars
    /\ UNCHANGED <<ad_text, ng_words, template, placeholders, PLACEHOLDER_VALUES,
                   renorm_out, mask_out, detect_out, expand_out>>

\* a second call, on the text the first call returned
Renormalize ==
    /\ pc = "normalized"
    /\ norm_out.raised = "none"
    /\ renorm_out' = normalize_text_for_matching(norm_out.text)
    /\ pc' = "renormalized"
    /\ UNCHANGED restVars
    /\ UNCHANGED <<ad_text, ng_words, template, placeholders, PLACEHOLDER_VALUES,
                   norm_out, mask_out, detect_out, expand_out>>

NextNormalize == Normalize

SpecNormalize == InitNormalize /\ [][NextNormalize]_vars

\* Runs that normalize twice start from texts whose characters have a
\* one-code-point NFC form, so that the first result is a well-formed pair.
RenormTexts == SeqsUpTo(NormChars \ {2392}, MaxNormLen) \cup {TattaText}

InitRenormalize ==
    /\ pc = "init"
    /\ PLACEHOLDER_VALUES = TukareTable
    /\ IdleRest
    /\ ad_text \in RenormTexts
    /\ ng_words = <<>>
    /\ template = <<>>
    /\ placeholders = <<>>
    /\ norm_out = NoNorm
    /\ renorm_out = NoNorm
    /\ mask_out = NoMask
    /\ detect_out = NoDetect
    /\ expand_out = NoExpand

NextRenormalize == Normalize \/ Renormalize

SpecRenormalize == InitRenormalize /\ [][NextRenormalize]_vars

(***************************************************************************)
(* expand_placeholders                                                     *)
(***************************************************************************)
\* token = f"{{{ph}}}"
Token(ph) == <<LBRACE>> \o ph \o <<RBRACE>>

\* the inner loop body for one item of results
ExpandItem(item, token, values) ==
    IF Contains(item, token)
    THEN [k \in 1..Len(values) |-> Replace(item, token, values[k])]
    ELSE <<item>>

\* new_results after the inner loop over results
ExpandStep(results, token, values) ==
    Flatten([k \in 1..Len(results) |-> ExpandItem(results[k], token, values)])

\* the outer loop over placeholders.items(), in the dict's order
RECURSIVE ExpandLoop(_, _, _)
ExpandLoop(results, table, i) ==
    IF i > Len(table) THEN results
    ELSE ExpandLoop(ExpandStep(results, Token(table[i].name), table[i].values),
                    table, i + 1)

expand_placeholders(text, table) == ExpandLoop(<<text>>, table, 1)

\* "肌{TUKARE}" and its expansion (spec scenario)
HadaTemplate == <<32908>> \o Token(TUKARE)
HadaExpanded == << <<32908, 12398, 30130, 12428>>,
                   <<32908, 12395, 20986, 12383, 30130, 12428>> >>

(***************************************************************************)
(* Inputs of the expansion runs: placeholders A and B, an unknown token    *)
(* {C}, literal text, and substitution values that are literal or hold a   *)
(* token themselves.                                                       *)
(***************************************************************************)
NameA == <<65>>
NameB == <<66>>
NameC == <<67>>
TemplatePieces == {Token(NameA), Token(NameB), Token(NameC), <<120>>}
Templates ==
    {<<>>} \cup TemplatePieces \cup {a \o b : a, b \in TemplatePieces}
ValuePool == {<<112>>, <<113>>, Token(NameA), Token(NameB)}
\* an ordered, non-empty list of substitution strings
ValueLists == SeqsUpTo(ValuePool, MaxValues) \ {<<>>}
Tables ==
    {<<>>}
    \cup {<<[name |-> n, values |-> v]>> : n \in {NameA, NameB}, v \in ValueLists}
    \cup {<<[name |-> n[1], values |-> v], [name |-> n[2], values |-> w]>> :
              n \in {<<NameA, NameB>>, <<NameB, NameA>>},
              v \in ValueLists, w \in ValueLists}

InitExpand ==
    /\ pc = "init"
    /\ PLACEHOLDER_VALUES = TukareTable
    /\ IdleRest
    /\ ad_text = <<>>
    /\ ng_words = <<>>
    /\ \E call \in (Templates \X Tables) \cup {<<HadaTemplate, TukareTable>>} :
           /\ template = call[1]
           /\ placeholders = call[2]
    /\ norm_out = NoNorm
    /\ renorm_out = NoNorm
    /\ mask_out = NoMask
    /\ detect_out = NoDetect
    /\ expand_out = NoExpand

\* a call expand_placeholders(template, placeholders)
Expand ==
    /\ pc = "init"
    /\ expand_out' = expand_placeholders(template, placeholders)
    /\ pc' = "expanded"
    /\ UNCHANGED restVars
    /\ UNCHANGED <<ad_text, ng_words, template, placeholders, PLACEHOLDER_VALUES,
                   norm_out, renorm_out, mask_out, detect_out>>

NextExpand == Expand

SpecExpand == InitExpand /\ [][NextExpand]_vars

(***************************************************************************)
(* Python's re module, for the pattern syntax the rule phrases of the      *)
(* model use: literals, character sets (negation, ranges, class escapes),  *)
(* the anchors ^ and \b, the classes \d and \s, escaped punctuation and    *)
(* the greedy repeats * and +.  The characters . $ ? | ( ) and counted     *)
(* repeats do not occur in the model's phrases.  Patterns are compiled     *)
(* with re.IGNORECASE.                                                     *)
(***************************************************************************)
STAR == 42
PLUS == 43
MINUS == 45
LOWER_B == 98
LOWER_D == 100
LOWER_S == 115
BACKSPACE == 8

\* characters re.escape prefixes with a backslash: ()[]{}?*+-|^$\.&~# and whitespace
EscapeSpecials ==
    {40, 41, LBRACK, RBRACK, LBRACE, RBRACE, 63, STAR, PLUS, MINUS, 124, CARET, 36,
     BACKSLASH, PERIOD, 38, 126, 35, SPACE, 9, 10, 13, 11, 12}

\* re.escape(s)
Escape(s) ==
    Flatten([k \in 1..Len(s) |->
        IF s[k] \in EscapeSpecials THEN <<BACKSLASH, s[k]>> ELSE <<s[k]>>])

IsAsciiAlnum(c) == c \in 48..57 \/ c \in 65..90 \/ c \in 97..122

\* str.lower / str.upper of one character (ASCII and full-width Latin letters)
ToLower(c) ==
    IF c \in 65..90 \/ c \in 65313..65338 THEN c + 32 ELSE c
ToUpper(c) ==
    IF c \in 97..122 \/ c \in 65345..65370 THEN c - 32 ELSE c

\* \d of a str pattern: decimal digits, half-width and full-width
IsDigit(c) == c \in 48..57 \/ c \in 65296..65305

\* \w of a str pattern: str.isalnum() or "_"
IsWord(c) ==
    \/ IsAsciiAlnum(c) \/ c = 95
    \/ IsDigit(c) \/ c \in 65313..65338 \/ c \in 65345..65370
    \/ c \in 12353..12438 \/ c \in 12449..12538
    \/ c \in 19968..40959

\* an item of a pattern; q is "one", "star", "plus" or "range", and lo..hi is
\* the repeat count of a "range" (hi = -1: no upper limit)
CharAtom(neg, items, classes, q) ==
    [kind |-> "char", neg |-> neg, items |-> items, classes |-> classes, q |-> q,
     lo |-> 1, hi |-> 1]
LiteralAtom(c) == CharAtom(FALSE, {<<c, c>>}, {}, "one")
AnchorAtom(kind) ==
    [kind |-> kind, neg |-> FALSE, items |-> {}, classes |-> {}, q |-> "one",
     lo |-> 1, hi |-> 1]
\* re.compile raised re.error, or OverflowError
ParseError == [ok |-> FALSE, atoms |-> <<>>, error |-> "re.error"]
ParseOverflow == [ok |-> FALSE, atoms |-> <<>>, error |-> "OverflowError"]

\* "4294967295", the digits of _sre.MAXREPEAT
MAXREPEAT_DIGITS == <<52, 50, 57, 52, 57, 54, 55, 50, 57, 53>>
\* repeat counts above the length of every text of the runs are kept as this
RepeatCap == 100

IsAsciiDigit(c) == c \in 48..57

\* the index after the run of ASCII digits that starts at p[i]
RECURSIVE DigitsEnd(_, _)
DigitsEnd(p, i) ==
    IF i <= Len(p) /\ IsAsciiDigit(p[i]) THEN DigitsEnd(p, i + 1) ELSE i

\* a digit string without its leading zeros
RECURSIVE StripZeros(_)
StripZeros(d) == IF d # <<>> /\ Head(d) = 48 THEN StripZeros(Tail(d)) ELSE d

\* int(a) < int(b) for two digit strings without leading zeros
RECURSIVE DigitsLessFrom(_, _, _)
DigitsLessFrom(a, b, k) ==
    IF k > Len(a) THEN FALSE
    ELSE IF a[k] # b[k] THEN a[k] < b[k]
    ELSE DigitsLessFrom(a, b, k + 1)
DigitsLess(a, b) ==
    LET x == StripZeros(a)
        y == StripZeros(b)
    IN  Len(x) < Len(y) \/ (Len(x) = Len(y) /\ DigitsLessFrom(x, y, 1))

\* int(d), kept at RepeatCap when it is larger
RECURSIVE DigitsValueFrom(_, _, _)
DigitsValueFrom(d, k, v) ==
    IF k > Len(d) THEN v
    ELSE LET w == v * 10 + (d[k] - 48)
         IN  DigitsValueFrom(d, k + 1, IF w > RepeatCap THEN RepeatCap ELSE w)
DigitsValue(d) == DigitsValueFrom(d, 1, 0)

\* the repeat read between the braces: lo and hi are its digit strings (empty
\* when left out) and next is the index after "}"
BraceCounts(lo, hi, next) ==
    [complete |-> TRUE,
     overflow |-> \/ lo # <<>> /\ ~DigitsLess(lo, MAXREPEAT_DIGITS)
                  \/ hi # <<>> /\ ~DigitsLess(hi, MAXREPEAT_DIGITS),
     inverted |-> lo # <<>> /\ hi # <<>> /\ DigitsLess(hi, lo),
     lo |-> IF lo = <<>> THEN 0 ELSE DigitsValue(lo),
     hi |-> IF hi = <<>> THEN -1 ELSE DigitsValue(hi),
     next |-> next]

\* the digits of lo end before p[a] = ",", and those of hi before p[b]
BraceWithComma(p, i, a, b) ==
    IF b <= Len(p) /\ p[b] = RBRACE
    THEN BraceCounts(SubSeq(p, i + 1, a - 1), SubSeq(p, a + 1, b - 1), b + 1)
    ELSE [complete |-> FALSE]

\* the digits of lo end before p[a]
BraceAfterLow(p, i, a) ==
    IF a <= Len(p) /\ p[a] = COMMA THEN BraceWithComma(p, i, a, DigitsEnd(p, a + 1))
    ELSE IF a <= Len(p) /\ p[a] = RBRACE
    THEN BraceCounts(SubSeq(p, i + 1, a - 1), SubSeq(p, i + 1, a - 1), a + 1)
    ELSE [complete |-> FALSE]

\* sre_parse._parse at p[i] = "{": a repeat {lo}, {lo,hi}, {lo,} or {,hi} when
\* the braces close after the digits, a literal "{" otherwise
BraceRepeat(p, i) ==
    IF i + 1 <= Len(p) /\ p[i + 1] = RBRACE THEN [complete |-> FALSE]
    ELSE BraceAfterLow(p, i, DigitsEnd(p, i + 1))

\* sre_parse._class_escape / _escape for the escape at p[i] = "\": the code it
\* denotes and the next index
EscapeCode(p, i, inSet) ==
    IF i + 1 > Len(p) THEN [ok |-> FALSE]
    ELSE LET e == p[i + 1]
         IN  CASE e = LOWER_D -> [ok |-> TRUE, cls |-> "digit", ch |-> 0, next |-> i + 2]
               [] e = LOWER_S -> [ok |-> TRUE, cls |-> "space", ch |-> 0, next |-> i + 2]
               [] e = LOWER_B /\ inSet ->
                      [ok |-> TRUE, cls |-> "none", ch |-> BACKSPACE, next |-> i + 2]
               [] e = LOWER_B /\ ~inSet ->
                      [ok |-> TRUE, cls |-> "boundary", ch |-> 0, next |-> i + 2]
               [] OTHER ->
                      IF IsAsciiAlnum(e) THEN [ok |-> FALSE]
                      ELSE [ok |-> TRUE, cls |-> "none", ch |-> e, next |-> i + 2]

\* one member of a set at p[i]: an escape or a literal
SetCode(p, i) ==
    IF p[i] = BACKSLASH THEN EscapeCode(p, i, TRUE)
    ELSE [ok |-> TRUE, cls |-> "none", ch |-> p[i], next |-> i + 1]

\* sre_parse._parse, the loop after "[" (and "^"): members up to the closing "]"
RECURSIVE ParseSet(_, _, _, _, _, _)
ParseSet(p, i, neg, items, classes, nonempty) ==
    IF i > Len(p) THEN [ok |-> FALSE]
    ELSE IF p[i] = RBRACK /\ nonempty
    THEN [ok |-> TRUE, atom |-> CharAtom(neg, items, classes, "one"), next |-> i + 1]
    ELSE LET code1 == SetCode(p, i)
         IN  IF ~code1.ok THEN [ok |-> FALSE]
             ELSE IF code1.next <= Len(p) /\ p[code1.next] = MINUS
             THEN IF code1.next + 1 > Len(p) THEN [ok |-> FALSE]
                  ELSE IF p[code1.next + 1] = RBRACK
                  THEN [ok |-> TRUE,
                        atom |-> CharAtom(neg,
                            (IF code1.cls = "none"
                             THEN items \cup {<<code1.ch, code1.ch>>} ELSE items)
                                \cup {<<MINUS, MINUS>>},
                            IF code1.cls = "none" THEN classes
                            ELSE classes \cup {code1.cls}, "one"),
                        next |-> code1.next + 2]
                  ELSE LET code2 == SetCode(p, code1.next + 1)
                       IN  IF ~code2.ok \/ code1.cls # "none" \/ code2.cls # "none"
                              \/ code2.ch < code1.ch
                           THEN [ok |-> FALSE]
                           ELSE ParseSet(p, code2.next, neg,
                                         items \cup {<<code1.ch, code2.ch>>},
                                         classes, TRUE)
             ELSE IF code1.cls = "none"
             THEN ParseSet(p, code1.next, neg,
                           items \cup {<<code1.ch, code1.ch>>}, classes, TRUE)
             ELSE ParseSet(p, code1.next, neg, items, classes \cup {code1.cls}, TRUE)

\* sre_parse._parse: the items of the pattern from p[i] on
RECURSIVE ParseItems(_, _, _)
\* p[next] = "{" follows a repeatable item: the repeat it opens, or a literal
ParseBrace(p, atom, next, atoms, brace) ==
    IF ~brace.complete THEN ParseItems(p, next, Append(atoms, atom))
    ELSE IF brace.overflow THEN ParseOverflow
    ELSE IF brace.inverted THEN ParseError
    ELSE ParseItems(p, brace.next,
                    Append(atoms, [atom EXCEPT !.q = "range",
                                               !.lo = brace.lo, !.hi = brace.hi]))

\* a repeatable item was read up to p[next - 1]: take a repeat that follows it
ParseRepeat(p, atom, next, atoms) ==
    IF next <= Len(p) /\ p[next] \in {STAR, PLUS}
    THEN ParseItems(p, next + 1,
                    Append(atoms, [atom EXCEPT !.q = IF p[next] = STAR THEN "star"
                                                     ELSE "plus"]))
    ELSE IF next <= Len(p) /\ p[next] = LBRACE
    THEN ParseBrace(p, atom, next, atoms, BraceRepeat(p, next))
    ELSE ParseItems(p, next, Append(atoms, atom))

\* an anchor was read: a repeat after it is "nothing to repeat"
ParseAnchor(p, kind, next, atoms) ==
    IF next <= Len(p) /\ p[next] \in {STAR, PLUS} THEN ParseError
    ELSE ParseItems(p, next, Append(atoms, AnchorAtom(kind)))

ParseItems(p, i, atoms) ==
    IF i > Len(p) THEN [ok |-> TRUE, atoms |-> atoms, error |-> "none"]
    ELSE CASE p[i] = LBRACK ->
                 LET neg == i + 1 <= Len(p) /\ p[i + 1] = CARET
                     set == ParseSet(p, IF neg THEN i + 2 ELSE i + 1, neg, {}, {}, FALSE)
                 IN  IF set.ok THEN ParseRepeat(p, set.atom, set.next, atoms)
                     ELSE ParseError
           [] p[i] = CARET -> ParseAnchor(p, "bol", i + 1, atoms)
           [] p[i] = BACKSLASH ->
                 LET code == EscapeCode(p, i, FALSE)
                 IN  IF ~code.ok THEN ParseError
                     ELSE IF code.cls = "boundary"
                     THEN ParseAnchor(p, "boundary", code.next, atoms)
                     ELSE IF code.cls = "none"
                     THEN ParseRepeat(p, LiteralAtom(code.ch), code.next, atoms)
                     ELSE ParseRepeat(p, CharAtom(FALSE, {}, {code.cls}, "one"),
                                      code.next, atoms)
           [] p[i] \in {STAR, PLUS} -> ParseError
           \* a repeat with nothing to repeat, or after another repeat; the
           \* count is checked first
           [] p[i] = LBRACE /\ BraceRepeat(p, i).complete ->
                 IF BraceRepeat(p, i).overflow THEN ParseOverflow ELSE ParseError
           [] OTHER -> ParseRepeat(p, LiteralAtom(p[i]), i + 1, atoms)

\* re.compile(pattern_str, re.IGNORECASE): with ok = FALSE, error names the
\* exception raised
ReCompile(pattern_str) == ParseItems(pattern_str, 1, <<>>)

\* one character against one item of the pattern, ignoring case
AtomMatchesChar(a, t) ==
    LET hit == \/ \E it \in a.items :
                     \/ t >= it[1] /\ t <= it[2]
                     \/ ToLower(t) >= it[1] /\ ToLower(t) <= it[2]
                     \/ ToUpper(t) >= it[1] /\ ToUpper(t) <= it[2]
               \/ "digit" \in a.classes /\ IsDigit(t)
               \/ "space" \in a.classes /\ IsSpaceChar(t)
    IN  IF a.neg THEN ~hit ELSE hit

\* \b at offset pos: exactly one side is a word character
AtBoundary(text, pos) ==
    LET before == pos >= 1 /\ IsWord(text[pos])
        after == pos < Len(text) /\ IsWord(text[pos + 1])
    IN  before # after

\* the number of consecutive characters from pos that item a matches
RECURSIVE RunLength(_, _, _)
RunLength(a, text, pos) ==
    IF pos < Len(text) /\ AtomMatchesChar(a, text[pos + 1])
    THEN 1 + RunLength(a, text, pos + 1) ELSE 0

\* The backtracking matcher: the end offset of the first match, in the
\* engine's priority order, of items k.. at pos that ends at or after
\* mustEnd; -1 if there is none.
RECURSIVE MatchFrom(_, _, _, _, _)
RECURSIVE Greedy(_, _, _, _, _, _, _)
Greedy(atoms, text, k, pos, count, least, mustEnd) ==
    IF count < least THEN -1
    ELSE LET e == MatchFrom(atoms, text, k + 1, pos + count, mustEnd)
         IN  IF e # -1 THEN e
             ELSE Greedy(atoms, text, k, pos, count - 1, least, mustEnd)

MatchFrom(atoms, text, k, pos, mustEnd) ==
    IF k > Len(atoms) THEN (IF pos >= mustEnd THEN pos ELSE -1)
    ELSE LET a == atoms[k]
         IN  CASE a.kind = "bol" ->
                     IF pos = 0 THEN MatchFrom(atoms, text, k + 1, pos, mustEnd) ELSE -1
               [] a.kind = "boundary" ->
                     IF AtBoundary(text, pos)
                     THEN MatchFrom(atoms, text, k + 1, pos, mustEnd) ELSE -1
               [] a.kind = "char" /\ a.q = "one" ->
                     IF pos < Len(text) /\ AtomMatchesChar(a, text[pos + 1])
                     THEN MatchFrom(atoms, text, k + 1, pos + 1, mustEnd) ELSE -1
               [] a.kind = "char" /\ a.q = "range" ->
                     LET run == RunLength(a, text, pos)
                     IN  Greedy(atoms, text, k, pos,
                                IF a.hi >= 0 /\ run > a.hi THEN a.hi ELSE run,
                                a.lo, mustEnd)
               [] OTHER ->
                     Greedy(atoms, text, k, pos, RunLength(a, text, pos),
                            IF a.q = "plus" THEN 1 ELSE 0, mustEnd)

\* Pattern.finditer(text): the non-overlapping matches <<start, end>>, left to
\* right; after an empty match the next match at the same offset must be
\* non-empty.
RECURSIVE Scan(_, _, _, _)
Scan(atoms, text, pos, must_advance) ==
    IF pos > Len(text) THEN <<>>
    ELSE LET e == MatchFrom(atoms, text, 1, pos, IF must_advance THEN pos + 1 ELSE pos)
         IN  IF e = -1 THEN Scan(atoms, text, pos + 1, FALSE)
             ELSE <<<<pos, e>>>> \o Scan(atoms, text, e, e = pos)

FindIter(pattern, text) == Scan(pattern.atoms, text, 0, FALSE)

(***************************************************************************)
(* compile_ng_word                                                         *)
(***************************************************************************)
\* the phrase text \d+ and what it is rewritten to: [0-9０-９]+
DigitMarker == <<BACKSLASH, LOWER_D, PLUS>>
\* a variant that accepts half-width digits alone: [0-9]+
DigitRun_HalfWidth == <<LBRACK, 48, MINUS, 57, RBRACK, PLUS>>
DigitRun == <<LBRACK, 48, MINUS, 57, 65296, MINUS, 65305, RBRACK, PLUS>>
\* the replacement \s* for a whitespace run
AnySpace == <<BACKSLASH, LOWER_S, STAR>>

\* re.sub(r'[ぁ-ん]', lambda m: "[" + m + chr(ord(m) + 0x60) + "]", s)
HiraganaToSets(s) ==
    Flatten([k \in 1..Len(s) |->
        IF s[k] >= HIRA_FIRST /\ s[k] <= HIRA_LAST
        THEN <<LBRACK, s[k], s[k] + KATA_SHIFT, RBRACK>> ELSE <<s[k]>>])

\* re.sub(r'\s+', r'\\s*', s): every maximal whitespace run becomes \s*
RECURSIVE SpaceRunsFrom(_, _)
SpaceRunsFrom(s, i) ==
    IF i > Len(s) THEN <<>>
    ELSE IF IsSpaceChar(s[i])
    THEN (IF i > 1 /\ IsSpaceChar(s[i - 1]) THEN <<>> ELSE AnySpace)
             \o SpaceRunsFrom(s, i + 1)
    ELSE <<s[i]>> \o SpaceRunsFrom(s, i + 1)
SpaceRunsToPattern(s) == SpaceRunsFrom(s, 1)

\* the pattern string built from the normalized phrase
PatternStr(phrase_normalized) ==
    SpaceRunsToPattern(HiraganaToSets(Replace(phrase_normalized, DigitMarker, DigitRun)))

\* compile the pattern string, or on re.error the escaped literal
compile_ng_word(phrase) ==
    LET phrase_normalized == normalize_text_for_matching(phrase).text
        pattern == ReCompile(PatternStr(phrase_normalized))
    IN  IF pattern.error = "re.error" THEN ReCompile(Escape(phrase_normalized))
        ELSE pattern

(***************************************************************************)
(* mask_safe_expressions                                                   *)
(***************************************************************************)
\* re.compile(expr, re.IGNORECASE), or on re.error the escaped literal; another
\* exception is not caught
CompileExclusion(expr) ==
    LET pattern == ReCompile(expr)
    IN  IF pattern.error = "re.error" THEN ReCompile(Escape(expr)) ELSE pattern

\* offset i lies in one of the spans <<start, end>>
Covered(spans, i) == \E k \in 1..Len(spans) : spans[k][1] <= i /\ i < spans[k][2]

\* a variant that writes one filler per match instead of one per matched character
SubFiller_OneFillerPerMatch(pattern, text) ==
    LET spans == FindIter(pattern, text)
    IN  Flatten([k \in 1..Len(text) |->
            IF ~Covered(spans, k - 1) THEN <<text[k]>>
            ELSE IF \E j \in 1..Len(spans) : spans[j][1] = k - 1 THEN <<FILLER>>
            ELSE <<>>])

\* pattern.sub(lambda m: "□" * len(m.group()), text)
SubFiller(pattern, text) ==
    LET spans == FindIter(pattern, text)
    IN  [k \in 1..Len(text) |-> IF Covered(spans, k - 1) THEN FILLER ELSE text[k]]

\* every rule's exclusion expressions, placeholder-expanded, in processing order
AllExclusions(rules) ==
    Flatten([r \in 1..Len(rules) |->
        Flatten([x \in 1..Len(rules[r].exclusions) |->
            expand_placeholders(rules[r].exclusions[x], PLACEHOLDER_VALUES)])])

\* the loop over the expressions: one already in processed_exclusions is skipped
RECURSIVE MaskLoop(_, _, _, _)
MaskLoop(masked_text, exprs, i, processed_exclusions) ==
    IF i > Len(exprs) THEN masked_text
    ELSE IF exprs[i] \in processed_exclusions
    THEN MaskLoop(masked_text, exprs, i + 1, processed_exclusions)
    ELSE MaskLoop(SubFiller(CompileExclusion(exprs[i]), masked_text), exprs, i + 1,
                  processed_exclusions \cup {exprs[i]})

mask_safe_expressions(text, rules) == MaskLoop(text, AllExclusions(rules), 1, {})

\* the exception mask_safe_expressions raises, "none" when it returns: the
\* compilation of an expression raised something other than re.error
AnyRaises(exprs) == \E k \in 1..Len(exprs) : CompileExclusion(exprs[k]).error # "none"
MaskRaised(rules) == IF AnyRaises(AllExclusions(rules)) THEN "OverflowError" ELSE "none"

(***************************************************************************)
(* check_advertisement_with_categories_masking                             *)
(***************************************************************************)
\* sorted(ng_words.items(), key=lambda x: -len(x[0])): a stable sort
RECURSIVE LongestFirstFrom(_, _)
LongestFirstFrom(rules, n) ==
    IF n < 0 THEN <<>>
    ELSE SelectSeq(rules, LAMBDA r : Len(r.original) = n) \o LongestFirstFrom(rules, n - 1)

MaxKeyLen(rules) ==
    IF rules = <<>> THEN 0
    ELSE CHOOSE n \in {Len(rules[k].original) : k \in 1..Len(rules)} :
             \A k \in 1..Len(rules) : Len(rules[k].original) <= n

\* a variant that puts the later of two equally long keys first
LongestFirst_LaterTieFirst(rules) ==
    LongestFirstFrom([k \in 1..Len(rules) |-> rules[Len(rules) + 1 - k]], MaxKeyLen(rules))

LongestFirst(rules) == LongestFirstFrom(rules, MaxKeyLen(rules))

\* a variant that rejects a match only when the very same span was accepted
Overlaps_SameSpanOnly(start, end, matched_positions) ==
    \E k \in 1..Len(matched_positions) : matched_positions[k] = <<start, end>>

\* any(start < e and end > s for s, e in matched_positions)
Overlaps(start, end, matched_positions) ==
    \E k \in 1..Len(matched_positions) :
        start < matched_positions[k][2] /\ end > matched_positions[k][1]

\* mapping[i] for a Python list: a negative index counts from the end, an
\* index outside the list raises IndexError
ListIndex(mapping, i) ==
    IF i >= 0 /\ i < Len(mapping) THEN [ok |-> TRUE, value |-> mapping[i + 1]]
    ELSE IF i < 0 /\ -i <= Len(mapping)
    THEN [ok |-> TRUE, value |-> mapping[Len(mapping) + i + 1]]
    ELSE [ok |-> FALSE, value |-> 0]

\* the loop over one pattern's matches
RECURSIVE MatchLoop(_, _, _, _, _, _)
MatchLoop(ad, mapping, details, matches, i, acc) ==
    IF i > Len(matches) \/ acc.raised # "none" THEN acc
    ELSE LET start == matches[i][1]
             end == matches[i][2]
         IN  IF Overlaps(start, end, acc.accepted)
             THEN MatchLoop(ad, mapping, details, matches, i + 1, acc)
             ELSE LET orig_start == ListIndex(mapping, start)
                      orig_last == ListIndex(mapping, end - 1)
                      matched == Append(acc.accepted, <<start, end>>)
                  IN  IF ~orig_start.ok \/ ~orig_last.ok
                      THEN [acc EXCEPT !.raised = "IndexError", !.accepted = matched]
                      ELSE MatchLoop(ad, mapping, details, matches, i + 1,
                              [acc EXCEPT
                                 !.accepted = matched,
                                 !.items = Append(@,
                                    [category |-> details.category,
                                     expression |-> PySlice(ad, orig_start.value,
                                                            orig_last.value + 1),
                                     start |-> orig_start.value,
                                     end |-> orig_last.value + 1])])

\* the loop over the rules, longest key first
RECURSIVE RuleLoop(_, _, _, _, _, _)
\* one rule: an exception of compile_ng_word ends the loop, a pattern is searched
RuleStep(ad, mapping, masked_text, sorted_ng_words, i, acc, phrase_pattern) ==
    IF phrase_pattern.error # "none" THEN [acc EXCEPT !.raised = phrase_pattern.error]
    ELSE RuleLoop(ad, mapping, masked_text, sorted_ng_words, i + 1,
                  MatchLoop(ad, mapping, sorted_ng_words[i],
                            FindIter(phrase_pattern, masked_text), 1, acc))

RuleLoop(ad, mapping, masked_text, sorted_ng_words, i, acc) ==
    IF i > Len(sorted_ng_words) \/ acc.raised # "none" THEN acc
    ELSE RuleStep(ad, mapping, masked_text, sorted_ng_words, i, acc,
                  compile_ng_word(sorted_ng_words[i].original))

\* list.sort(key=lambda x: x["開始位置"]): a stable sort
RECURSIVE SortByStart(_)
InsertByStart(sorted, item) ==
    LET before == SelectSeq(sorted, LAMBDA v : v.start <= item.start)
        after == SelectSeq(sorted, LAMBDA v : v.start > item.start)
    IN  before \o <<item>> \o after
SortByStart(items) ==
    IF items = <<>> THEN <<>>
    ELSE InsertByStart(SortByStart(SubSeq(items, 1, Len(items) - 1)), items[Len(items)])

check_advertisement_with_categories_masking(ad, rules) ==
    LET norm == normalize_text_for_matching(ad)
    IN  IF norm.raised # "none"
        THEN [raised |-> norm.raised, items |-> <<>>, accepted |-> <<>>, masked |-> <<>>]
        ELSE IF MaskRaised(rules) # "none"
        THEN [raised |-> "OverflowError", items |-> <<>>, accepted |-> <<>>,
              masked |-> <<>>]
        ELSE LET masked_text == mask_safe_expressions(norm.text, rules)
                 found == RuleLoop(ad, norm.mapping, masked_text, LongestFirst(rules), 1,
                                   [raised |-> "none", items |-> <<>>,
                                    accepted |-> <<>>, masked |-> masked_text])
             IN  IF found.raised # "none" THEN [found EXCEPT !.items = <<>>]
                 ELSE [found EXCEPT !.items = SortByStart(found.items)]

(***************************************************************************)
(* Inputs of the detection runs.                                           *)
(***************************************************************************)
Rule(original, exclusions, category) ==
    [original |-> original, exclusions |-> exclusions, category |-> category]

\* the phrases "aa", "ab", "b", "ア" (excluding "ア"), "a" (excluding "ab"),
\* "^", "\b", " " and "["
RulePool ==
    << Rule(<<97, 97>>, <<>>, "aa"),
       Rule(<<97, 98>>, <<>>, "ab"),
       Rule(<<98>>, <<>>, "b"),
       Rule(<<12450>>, << <<12450>> >>, "kana"),
       Rule(<<97>>, << <<97, 98>> >>, "a"),
       Rule(<<CARET>>, <<>>, "caret"),
       Rule(<<BACKSLASH, LOWER_B>>, <<>>, "boundary"),
       Rule(<<SPACE>>, <<>>, "blank"),
       Rule(<<LBRACK>>, <<>>, "bracket") >>

Reverse(s) == [k \in 1..Len(s) |-> s[Len(s) + 1 - k]]

\* the rule maps over a pool: up to n of its rules, inserted in the
\* pool's order or in the reverse order
RuleMapsOf(pool, n) ==
    LET picks == {S \in SUBSET (1..Len(pool)) : Cardinality(S) <= n}
        InOrder(S) == SelectSeq([k \in 1..Len(pool) |-> k], LAMBDA k : k \in S)
        Map(S) == [k \in 1..Cardinality(S) |-> pool[InOrder(S)[k]]]
    IN  {Map(S) : S \in picks} \cup {Reverse(Map(S)) : S \in picks}

RuleMaps == RuleMapsOf(RulePool, MaxRules)

\* the rules of the pool whose phrase has no pattern syntax
LiteralRulePool == SubSeq(RulePool, 1, 5)
LiteralRuleMaps == RuleMapsOf(LiteralRulePool, MaxRules)

\* a, b, ア, space, [
TextChars == {97, 98, 12450, SPACE, LBRACK}
Texts == SeqsUpTo(TextChars, MaxTextLen)

Init ==
    /\ pc = "init"
    /\ PLACEHOLDER_VALUES = TukareTable
    /\ IdleRest
    /\ ad_text \in Texts
    /\ ng_words \in RuleMaps
    /\ template = <<>>
    /\ placeholders = <<>>
    /\ norm_out = NoNorm
    /\ renorm_out = NoNorm
    /\ mask_out = NoMask
    /\ detect_out = NoDetect
    /\ expand_out = NoExpand

\* a call check_advertisement_with_categories_masking(ad_text, ng_words)
Detect ==
    /\ pc = "init"
    /\ detect_out' = check_advertisement_with_categories_masking(ad_text, ng_words)
    /\ pc' = "detected"
    /\ UNCHANGED restVars
    /\ UNCHANGED <<ad_text, ng_words, template, placeholders, PLACEHOLDER_VALUES,
                   norm_out, renorm_out, mask_out, expand_out>>

Next == Detect

Spec == Init /\ [][Next]_vars

\* detection runs whose rule phrases are plain text
InitLiteral ==
    /\ pc = "init"
    /\ PLACEHOLDER_VALUES = TukareTable
    /\ IdleRest
    /\ ad_text \in Texts
    /\ ng_words \in LiteralRuleMaps
    /\ template = <<>>
    /\ placeholders = <<>>
    /\ norm_out = NoNorm
    /\ renorm_out = NoNorm
    /\ mask_out = NoMask
    /\ detect_out = NoDetect
    /\ expand_out = NoExpand

NextLiteral == Detect

SpecLiteral == InitLiteral /\ [][NextLiteral]_vars

(***************************************************************************)
(* Inputs of the masking runs: rules that differ in their exclusion        *)
(* expressions "ab", "A", "[b]", "[", "a*", ("b", "ab") and "{TUKARE}".    *)
(***************************************************************************)
MaskRulePool ==
    << Rule(<<49>>, << <<97, 98>> >>, "m1"),
       Rule(<<50>>, << <<65>> >>, "m2"),
       Rule(<<51>>, << <<LBRACK, 98, RBRACK>> >>, "m3"),
       Rule(<<52>>, << <<LBRACK>> >>, "m4"),
       Rule(<<53>>, << <<97, STAR>> >>, "m5"),
       Rule(<<54>>, << <<98>>, <<97, 98>> >>, "m6"),
       Rule(<<55>>, << Token(TUKARE) >>, "m7") >>

\* a, b, A, [, □
MaskChars == {97, 98, 65, LBRACK, FILLER}
\* "肌の疲れ"
HadaNoTsukare == <<32908, 12398, 30130, 12428>>
MaskTexts == SeqsUpTo(MaskChars, MaxMaskLen) \cup {HadaNoTsukare}

InitMask ==
    /\ pc = "init"
    /\ PLACEHOLDER_VALUES = TukareTable
    /\ IdleRest
    /\ ad_text \in MaskTexts
    /\ ng_words \in RuleMapsOf(MaskRulePool, MaxMaskRules)
    /\ template = <<>>
    /\ placeholders = <<>>
    /\ norm_out = NoNorm
    /\ renorm_out = NoNorm
    /\ mask_out = NoMask
    /\ detect_out = NoDetect
    /\ expand_out = NoExpand

\* a call mask_safe_expressions(ad_text, ng_words)
Mask ==
    /\ pc = "init"
    /\ mask_out' = IF MaskRaised(ng_words) # "none"
                   THEN [raised |-> "OverflowError", text |-> <<>>]
                   ELSE [raised |-> "none",
                         text |-> mask_safe_expressions(ad_text, ng_words)]
    /\ pc' = "masked"
    /\ UNCHANGED restVars
    /\ UNCHANGED <<ad_text, ng_words, template, placeholders, PLACEHOLDER_VALUES,
                   norm_out, renorm_out, detect_out, expand_out>>

NextMask == Mask

SpecMask == InitMask /\ [][NextMask]_vars

(***************************************************************************)
(* Claims about check_advertisement_with_categories_masking.               *)
(***************************************************************************)
Returned == pc = "detected" /\ detect_out.raised = "none"

\* C1: the returned list is ordered by start offset and pairwise disjoint: of
\* two consecutive items the earlier one ends at or before the later one's
\* start.
C1_OrderedAndDisjoint ==
    Returned =>
        \A k \in 1..(Len(detect_out.items) - 1) :
            /\ detect_out.items[k].start <= detect_out.items[k + 1].start
            /\ detect_out.items[k].end <= detect_out.items[k + 1].start

\* the placeholder-expanded exclusion expressions of every rule of the map
ListedExclusions ==
    UNION {{ng_words[r].exclusions[x] : x \in 1..Len(ng_words[r].exclusions)} :
           r \in 1..Len(ng_words)}
ExpandedExclusions ==
    UNION {{expand_placeholders(e, PLACEHOLDER_VALUES)[k] :
                k \in 1..Len(expand_placeholders(e, PLACEHOLDER_VALUES))} :
           e \in ListedExclusions}

\* C2: where the original text holds a verbatim occurrence of an expanded
\* exclusion expression of any rule of the map, no returned item's span
\* intersects that occurrence.
C2_ExclusionsNeverFlagged ==
    Returned =>
        \A e \in ExpandedExclusions : \A i \in 0..Len(ad_text) :
            (Len(e) > 0 /\ OccursAt(ad_text, e, i)) =>
                \A k \in 1..Len(detect_out.items) :
                    ~(/\ detect_out.items[k].start < i + Len(e)
                      /\ detect_out.items[k].end > i)

\* C3: every returned item has 0 <= start < end <= len(original text) and its
\* expression is the slice original[start:end].
C3_ValidSpanAndSlice ==
    Returned =>
        \A k \in 1..Len(detect_out.items) :
            LET item == detect_out.items[k]
            IN  /\ 0 <= item.start
                /\ item.start < item.end
                /\ item.end <= Len(ad_text)
                /\ item.expression = Slice(ad_text, item.start, item.end)

\* C4: the call never raises because of rule content, whatever the text (the
\* empty text included) and whatever the phrases of the rule map: it returns a
\* list.
C4_NeverRaises == pc = "detected" => detect_out.raised = "none"

\* rule i is ordered before rule j: a longer key, or an equally long key
\* inserted earlier
Precedes(i, j) ==
    \/ Len(ng_words[i].original) > Len(ng_words[j].original)
    \/ Len(ng_words[i].original) = Len(ng_words[j].original) /\ i < j
Earlier(i) == {j \in 1..Len(ng_words) : Precedes(j, i)}
\* the rules ordered before rule i, in that order
EarlierRules(i) ==
    [k \in 1..Cardinality(Earlier(i)) |->
        ng_words[CHOOSE j \in Earlier(i) : Cardinality(Earlier(j)) = k - 1]]
\* the matches accepted before rule i is processed
AcceptedBefore(i) ==
    RuleLoop(ad_text, normalize_text_for_matching(ad_text).mapping, detect_out.masked,
             EarlierRules(i), 1,
             [raised |-> "none", items |-> <<>>, accepted |-> <<>>,
              masked |-> detect_out.masked]).accepted

ProperSubstring(short, long) == Len(short) < Len(long) /\ Contains(long, short)
\* the matches of rule i's pattern in the masked text
MatchesOf(i) ==
    LET found == FindIter(compile_ng_word(ng_words[i].original), detect_out.masked)
    IN  {found[k] : k \in 1..Len(found)}
\* two non-empty spans of the masked text share an index
SharesIndex(m, n) == m[1] < m[2] /\ n[1] < n[2] /\ m[1] < n[2] /\ n[1] < m[2]
\* span m runs across span n: m starts before n's end and ends after n's start
\* (an empty n lies strictly inside m)
RunsAcross(m, n) == m[1] < n[2] /\ m[2] > n[1]
\* match m of rule i is returned as an item of that rule at the mapped offsets
Reported(i, m) ==
    LET mapping == normalize_text_for_matching(ad_text).mapping
    IN  \E k \in 1..Len(detect_out.items) :
            /\ detect_out.items[k].category = ng_words[i].category
            /\ detect_out.items[k].start = mapping[m[1] + 1]
            /\ detect_out.items[k].end = mapping[m[2]] + 1

RECURSIVE MatchedFrom(_, _, _)
MatchedFrom(text, exprs, j) ==
    IF j > Len(exprs) THEN {}
    ELSE LET spans == FindIter(CompileExclusion(exprs[j]), text)
         IN  {i \in 0..(Len(text) - 1) : Covered(spans, i)}
             \cup MatchedFrom(MaskLoop(text, <<exprs[j]>>, 1, {}), exprs, j + 1)
\* the offsets of the input matched by the rules' exclusion expressions
Matched == MatchedFrom(ad_text, AllExclusions(ng_words), 1)

StrictlyIncreasing(m) == \A i, j \in 1..Len(m) : i < j => m[i] < m[j]

\* C6: for every input text the result has len(normalizedText) = len(offsetMap),
\* the map is strictly increasing and holds valid indices of the input, and the
\* empty text gives the empty string and the empty map.
C6_LengthAndMapInvariant ==
    pc = "normalized" =>
        /\ norm_out.raised = "none"
        /\ Len(norm_out.text) = Len(norm_out.mapping)
        /\ StrictlyIncreasing(norm_out.mapping)
        /\ \A k \in 1..Len(norm_out.mapping) :
               norm_out.mapping[k] >= 0 /\ norm_out.mapping[k] < Len(ad_text)
        /\ (ad_text = <<>> => norm_out.text = <<>> /\ norm_out.mapping = <<>>)

\* The reference fold of one character: NFC, full-width to half-width, ASCII
\* lowercase, then katakana to hiragana.
RefFold(c) ==
    LET b == _basic_normalize_char(c)
    IN  IF Len(b) = 1 /\ b[1] >= KATA_FIRST /\ b[1] <= KATA_LAST
        THEN <<b[1] - KATA_SHIFT>> ELSE b

RefKept(text) == {i \in 0..(Len(text) - 1) : ~IsSpace(RefFold(text[i + 1]))}

RECURSIVE Ascending(_)
Ascending(S) ==
    IF S = {} THEN <<>>
    ELSE LET m == CHOOSE x \in S : \A y \in S : x <= y
         IN  <<m>> \o Ascending(S \ {m})

RefMap(text) == Ascending(RefKept(text))
RefText(text) ==
    LET m == RefMap(text) IN Flatten([k \in 1..Len(m) |-> RefFold(text[m[k] + 1])])

Identity(n) == [k \in 1..n |-> k - 1]

InTemplate(t, table) ==
    SelectSeq(table, LAMBDA ph : Contains(t, Token(ph.name)))

\* the lists of one value per placeholder of P: the first placeholder varies
\* slowest, the last fastest
RECURSIVE Choices(_)
Choices(P) ==
    IF P = <<>> THEN << <<>> >>
    ELSE LET rest == Choices(Tail(P))
         IN  Flatten([k \in 1..Len(Head(P).values) |->
                 [j \in 1..Len(rest) |-> <<Head(P).values[k]>> \o rest[j]]])

\* t with every token of P replaced by the value chosen for its placeholder;
\* the values themselves are not searched for tokens
RECURSIVE Substitute(_, _, _, _)
Substitute(t, P, choice, i) ==
    IF i >= Len(t) THEN <<>>
    ELSE IF \E k \in 1..Len(P) : OccursAt(t, Token(P[k].name), i)
    THEN LET k == CHOOSE k \in 1..Len(P) : OccursAt(t, Token(P[k].name), i)
         IN  choice[k] \o Substitute(t, P, choice, i + Len(Token(P[k].name)))
    ELSE <<t[i + 1]>> \o Substitute(t, P, choice, i + 1)

CrossProduct(t, P) ==
    [c \in 1..Len(Choices(P)) |-> Substitute(t, P, Choices(P)[c], 0)]

\* C10: the result is the full cross-product of the substitutions for the
\* placeholders whose token occurs in the template, first placeholder slowest,
\* duplicates kept; with no matching token it is [template]; "肌{TUKARE}"
\* expands to ["肌の疲れ", "肌に出た疲れ"].
C10_FullCrossProduct ==
    pc = "expanded" =>
        /\ expand_out = CrossProduct(template, InTemplate(template, placeholders))
        /\ (InTemplate(template, placeholders) = <<>> => expand_out = <<template>>)
        /\ (template = HadaTemplate /\ placeholders = TukareTable =>
                expand_out = HadaExpanded)

\* the tokens a template or a value of the runs can hold
KnownTokens == {Token(NameA), Token(NameB), Token(NameC), Token(TUKARE)}
\* the tokens of names that are not in the table
ForeignTokens(table) ==
    {T \in KnownTokens : \A k \in 1..Len(table) : Token(table[k].name) # T}

\* C11: no recursive substitution: there is one result per choice of values for
\* the template's placeholders, the result of a choice holds every token that
\* came in with a chosen value and is not in the template, and a token whose
\* name is not in the table stays in every result.
C11_NestedTokensKept ==
    pc = "expanded" =>
        \A P \in {InTemplate(template, placeholders)} : \A choices \in {Choices(P)} :
            /\ Len(expand_out) = Len(choices)
            /\ \A c \in 1..Len(choices) : \A k \in 1..Len(P) : \A T \in KnownTokens :
                   (Contains(choices[c][k], T) /\ ~Contains(template, T)) =>
                       Contains(expand_out[c], T)
            /\ \A T \in ForeignTokens(placeholders) : \A c \in 1..Len(expand_out) :
                   Contains(template, T) => Contains(expand_out[c], T)

(***************************************************************************)
(* compile_ng_word called on its own, and the pattern it returns searched  *)
(* in a text.                                                              *)
(***************************************************************************)
MaxPhraseLen == 2
MaxSubjectLen == 2

\* no call of the normalization, masking, detection or expansion is made
CoreIdle ==
    /\ ad_text = <<>>
    /\ ng_words = <<>>
    /\ template = <<>>
    /\ placeholders = <<>>
    /\ PLACEHOLDER_VALUES = TukareTable
    /\ norm_out = NoNorm
    /\ renorm_out = NoNorm
    /\ mask_out = NoMask
    /\ detect_out = NoDetect
    /\ expand_out = NoExpand

\* the phrases of test_compile_ng_word_patterns
TattaPhrase == <<12383, 12387, 12383, BACKSLASH, LOWER_D, PLUS, 26085, 12391>>
TattaSubject == <<12383, 12387, 12383, 49, 48, 48, 26085, 12391>>
BracketPhrase == <<LBRACK>>

\* "a{4294967295}": a repeat count of sre_constants.MAXREPEAT
RepeatPhrase == <<97, LBRACE>> \o MAXREPEAT_DIGITS \o <<RBRACE>>

PhraseChars == {97, 65, LBRACK, RBRACK, 12354, STAR}

Phrases == SeqsUpTo(PhraseChars, MaxPhraseLen) \cup {TattaPhrase, RepeatPhrase}

SubjectChars == {97, LBRACK, 12354, 12450}

Subjects == SeqsUpTo(SubjectChars, MaxSubjectLen) \cup {TattaSubject}

InitCompile ==
    /\ pc = "init"
    /\ CoreIdle
    /\ CacheIdle
    /\ ExtractIdle
    /\ ContextIdle
    /\ HighlightIdle
    /\ UiIdle
    /\ LateIdle
    /\ phrase_in \in Phrases
    /\ subject \in Subjects
    /\ compile_out = NoCompile
    /\ search_out = NoSearch

\* a call compile_ng_word(phrase_in)
Compile ==
    /\ pc = "init"
    /\ compile_out' = [raised |-> compile_ng_word(phrase_in).error,
                       pattern |-> compile_ng_word(phrase_in)]
    /\ pc' = "compiled"
    /\ UNCHANGED <<coreVars, cacheVars, extractVars, contextVars, highlightVars, uiVars, lateVars>>
    /\ UNCHANGED <<phrase_in, subject, search_out>>

\* the returned pattern's finditer(subject), as a list of spans
Search ==
    /\ pc = "compiled"
    /\ compile_out.raised = "none"
    /\ search_out' = FindIter(compile_out.pattern, subject)
    /\ pc' = "searched"
    /\ UNCHANGED <<coreVars, cacheVars, extractVars, contextVars, highlightVars, uiVars, lateVars>>
    /\ UNCHANGED <<phrase_in, subject, compile_out>>

NextCompile == Compile \/ Search

SpecCompile == InitCompile /\ [][NextCompile]_vars

(***************************************************************************)
(* Claims about compile_ng_word.                                           *)
(***************************************************************************)
\* the two characters are equal when case is ignored
SameIgnoringCase(c, d) == ToLower(c) = ToLower(d)

LiteralAt(needle, text, i) ==
    /\ i + Len(needle) <= Len(text)
    /\ \A k \in 1..Len(needle) : SameIgnoringCase(needle[k], text[i + k])

\* the spans of the occurrences of a non-empty needle in text, case ignored,
\* found from left to right without overlap, from offset i on
RECURSIVE LiteralSpans(_, _, _)
LiteralSpans(needle, text, i) ==
    IF i + Len(needle) > Len(text) THEN <<>>
    ELSE IF LiteralAt(needle, text, i)
    THEN << <<i, i + Len(needle)>> >> \o LiteralSpans(needle, text, i + Len(needle))
    ELSE LiteralSpans(needle, text, i + 1)

Normalized(p) == normalize_text_for_matching(p).text

\* C12: compile_ng_word never raises; when the rewritten phrase is not a valid
\* regular expression the returned pattern matches the normalized phrase as an
\* exact literal, case ignored; and a phrase that is not a valid regular
\* expression is matched by its own pattern exactly, from its first character
\* to its last.
C12_CompilesAndMatchesItself ==
    /\ pc # "init" => compile_out.raised = "none"
    /\ (pc = "searched" /\ ~ReCompile(PatternStr(Normalized(phrase_in))).ok) =>
           search_out = LiteralSpans(Normalized(phrase_in), subject, 0)
    /\ (pc # "init" /\ compile_out.raised = "none"
            /\ ~ReCompile(Normalized(phrase_in)).ok) =>
           FindIter(compile_out.pattern, Normalized(phrase_in))
               = << <<0, Len(Normalized(phrase_in))>> >>

(***************************************************************************)
(* compile_ng_word behind its functools.lru_cache: a sequence of calls and *)
(* of cache_clear().  The cache holds maxsize entries, 128 in the source;  *)
(* the model runs it with CacheMaxSize entries.                            *)
(***************************************************************************)
CacheMaxSize == 2
MaxCalls == 4

\* the phrases called with: two with the same normalized form, one that falls
\* back to the literal, one rewritten to a set, one that raises
CachePhrases == {<<97>>, <<65>>, <<LBRACK>>, <<12354>>, <<97, STAR>>, RepeatPhrase}

\* the key lru_cache files a call under: the phrase itself
CacheKey_LengthOnly(phrase) == Len(phrase)

CacheKey(phrase) == phrase

\* the position of the entry with this key, 0 when there is none
CacheFind(entries, key) ==
    IF \E k \in 1..Len(entries) : entries[k].key = key
    THEN CHOOSE k \in 1..Len(entries) : entries[k].key = key
    ELSE 0

CacheWithout(entries, k) == SubSeq(entries, 1, k - 1) \o SubSeq(entries, k + 1, Len(entries))

InitCache ==
    /\ pc = "init"
    /\ CoreIdle
    /\ CompileIdle
    /\ CacheIdle
    /\ ExtractIdle
    /\ ContextIdle
    /\ HighlightIdle
    /\ UiIdle
    /\ LateIdle

\* a call compile_ng_word(phrase) through the lru_cache wrapper: a hit returns
\* the stored pattern and makes the entry the most recent; a miss runs the
\* function, and stores what it returns (nothing when it raises), dropping
\* the least recent entry of a full cache
CachedCompile ==
    \E phrase \in CachePhrases :
        LET k == CacheFind(cache, CacheKey(phrase))
            fresh == compile_ng_word(phrase)
            entry == [key |-> CacheKey(phrase), value |-> fresh]
        IN  /\ cache_info.hits + cache_info.misses < MaxCalls
            /\ phrase_in' = phrase
            /\ pc' = "compiled"
            /\ IF k > 0
               THEN /\ compile_out' = [raised |-> "none", pattern |-> cache[k].value]
                    /\ cache' = CacheWithout(cache, k) \o <<cache[k]>>
                    /\ cache_info' = [cache_info EXCEPT !.hits = @ + 1]
                    /\ cache_event' = "hit"
               ELSE /\ compile_out' = [raised |-> fresh.error, pattern |-> fresh]
                    /\ cache_info' = [cache_info EXCEPT !.misses = @ + 1]
                    /\ IF fresh.error # "none"
                       THEN cache' = cache /\ cache_event' = "raise"
                       ELSE IF Len(cache) >= CacheMaxSize
                       THEN cache' = Tail(cache) \o <<entry>> /\ cache_event' = "evict"
                       ELSE cache' = cache \o <<entry>> /\ cache_event' = "miss"
            /\ UNCHANGED <<coreVars, extractVars, contextVars, highlightVars, uiVars, lateVars>>
            /\ UNCHANGED <<subject, search_out>>

\* compile_ng_word.cache_clear()
CacheClear ==
    /\ cache' = <<>>
    /\ cache_info' = NoCacheInfo
    /\ cache_event' = "clear"
    /\ UNCHANGED <<pc, coreVars, compileVars, extractVars, contextVars, highlightVars, lateVars>>
    /\ UNCHANGED uiVars

NextCache == CachedCompile \/ CacheClear

SpecCache == InitCache /\ [][NextCache]_vars

\* C13: whatever calls and clears came before, a call that returns gives a
\* pattern whose matches in every text are those of a fresh compilation of the
\* same phrase, and a call raises only when the fresh compilation raises.
C13_CacheUnobservable ==
    pc = "compiled" =>
        \A fresh \in {compile_ng_word(phrase_in)} :
            /\ compile_out.raised = fresh.error
            /\ compile_out.raised = "none" =>
                   \A text \in Subjects :
                       FindIter(compile_out.pattern, text) = FindIter(fresh, text)

\* a hit on a full cache after an entry was dropped: more misses than the
\* cache holds were counted since the last clear
C13_Witness ==
    /\ cache_event = "hit"
    /\ Len(cache) = CacheMaxSize
    /\ cache_info.misses > CacheMaxSize
    /\ compile_out.raised = "none"

(***************************************************************************)
(* extract_ng_data_from_subcategories.  A dict of the JSON data is a       *)
(* record; a key that may be missing holds a sequence of no or one value;  *)
(* a field that is a text or a mapping by tier (keys 一般 and 薬用) is a     *)
(* record with the flag tiered.  The rule map is a sequence of records in  *)
(* insertion order.                                                        *)
(***************************************************************************)
MaxSubCats == 2

\* "化粧品等"
GLOBAL_CATEGORY_NAME == <<21270, 31911, 21697, 31561>>

\* f"{GLOBAL_CATEGORY_NAME} > {sub_cat_name}"
CategoryStr(sub_cat_name) == GLOBAL_CATEGORY_NAME \o <<SPACE, 62, SPACE>> \o sub_cat_name

Plain(value) == [tiered |-> FALSE, general |-> value, medicated |-> <<>>]

Tiered(general, medicated) == [tiered |-> TRUE, general |-> general, medicated |-> medicated]

\* for each expanded word of each target word of each entry of each
\* subcategory of each group, in the order of the loops: the word with the
\* subcategory and the entry it comes from
ExpandedWords(data, table) ==
    Flatten([g \in 1..Len(data) |->
        Flatten([c \in 1..Len(data[g].subcategories) |->
            LET sub_cat == data[g].subcategories[c]
            IN  Flatten([i \in 1..Len(sub_cat.items) |->
                    LET item == sub_cat.items[i]
                    IN  Flatten([w \in 1..Len(item.words) |->
                            LET expanded_words == expand_placeholders(item.words[w], table)
                            IN  [e \in 1..Len(expanded_words) |->
                                    [final_word |-> expanded_words[e],
                                     sub_cat |-> sub_cat, item |-> item]]])])])])

\* the body of the innermost loop, from the k-th expanded word on: an empty
\* word is skipped, a word that is a key already is skipped, any other word
\* is compiled and stored
RECURSIVE RegisterLoop(_, _, _)
RegisterLoop(words, k, ng) ==
    IF k > Len(words) \/ ng.raised # "none" THEN ng
    ELSE LET final_word == words[k].final_word
             sub_cat == words[k].sub_cat
             item == words[k].item
             pattern == compile_ng_word(final_word)
         IN  IF final_word = <<>> \/ \E r \in 1..Len(ng.ng_words) :
                                         ng.ng_words[r].original = final_word
             THEN RegisterLoop(words, k + 1, ng)
             ELSE IF pattern.error # "none"
             THEN [raised |-> pattern.error, ng_words |-> <<>>]
             ELSE RegisterLoop(words, k + 1,
                      [ng EXCEPT !.ng_words = @ \o
                          << [original |-> final_word,
                              pattern |-> pattern,
                              category |-> CategoryStr(sub_cat.name),
                              reason |-> item.reason,
                              suggestion |-> item.suggestion,
                              examples |-> item.examples,
                              exclusions |-> item.exclusions,
                              usage |-> sub_cat.usage] >>])

\* the call with the keyword arguments kwargs: the function has the one
\* parameter subcategory_data, so any other keyword is a TypeError
extract_ng_data_from_subcategories(data, kwargs, table) ==
    IF kwargs # NoKwargs THEN [raised |-> "TypeError", ng_words |-> <<>>]
    ELSE RegisterLoop(ExpandedWords(data, table), 1, [raised |-> "none", ng_words |-> <<>>])

\* the entries of the runs: the entry of sample_subcategory (usage "A", product
\* "P", the medicated tier empty), one of another usage with both tiers, one
\* with no usage and no product list, one of another product with a
\* placeholder, one whose word is empty, one with an empty word, a blank word
\* and the word "c"
Entry(words, reason, usage, products) ==
    [words |-> words, reason |-> reason, suggestion |-> reason,
     examples |-> IF reason.tiered
                  THEN Tiered(<<reason.general>>, IF reason.medicated = <<>> THEN <<>>
                                                  ELSE <<reason.medicated>>)
                  ELSE Plain(<<reason.general>>),
     exclusions |-> <<>>, usage |-> usage, products |-> products]

EntryPool ==
    << Entry(<< <<97, 98>> >>, Tiered(<<114, 49>>, <<>>), << <<"A">> >>, << <<"P">> >>),
       Entry(<< <<98>>, <<97, 98>> >>, Tiered(<<114, 49>>, <<114, 50>>),
             << <<"B">> >>, << <<"P">> >>),
       Entry(<< <<97, 98>> >>, Plain(<<114>>), <<>>, <<>>),
       Entry(<< HadaTemplate >>, Plain(<<114>>), << <<"A">> >>, << <<"Q">> >>),
       Entry(<< <<>> >>, Plain(<<114>>), << <<"A">> >>, << <<"P">> >>),
       Entry(<< <<>>, <<SPACE>>, <<99>> >>, Plain(<<114>>), << <<"A">> >>, << <<"P">> >>) >>

\* subcategories "共通A" and "共通B", each with one entry
SubCats ==
    { [name |-> <<20849, 36890>> \o name, usage |-> <<"A">>, items |-> <<EntryPool[i]>>] :
          name \in {<<65>>, <<66>>}, i \in 1..Len(EntryPool) }

\* the calls: with the data alone; with a selected usage and product as in
\* the fixture ng_word_map; with the tier as well as in
\* test_extract_ng_data_from_subcategories_fallback
KwargsPool ==
    { NoKwargs,
      [selected_usage |-> <<"A">>, selected_product |-> <<"P">>, category_type |-> <<>>],
      [selected_usage |-> <<"A">>, selected_product |-> <<"P">>,
       category_type |-> <<"medicated">>] }

InitExtract ==
    /\ pc = "init"
    /\ CoreIdle
    /\ CompileIdle
    /\ CacheIdle
    /\ ContextIdle
    /\ HighlightIdle
    /\ UiIdle
    /\ LateIdle
    /\ \E subcategories \in SeqsUpTo(SubCats, MaxSubCats) :
           subcategory_data = << [group |-> "common", subcategories |-> subcategories] >>
    /\ extract_kwargs \in KwargsPool
    /\ extract_out = NoExtract

\* a call extract_ng_data_from_subcategories(subcategory_data, **extract_kwargs)
Extract ==
    /\ pc = "init"
    /\ extract_out' = extract_ng_data_from_subcategories(subcategory_data, extract_kwargs,
                                                         PLACEHOLDER_VALUES)
    /\ pc' = "extracted"
    /\ UNCHANGED <<coreVars, compileVars, cacheVars, contextVars, highlightVars, uiVars, lateVars>>
    /\ UNCHANGED <<subcategory_data, extract_kwargs>>

NextExtract == Extract

SpecExtract == InitExtract /\ [][NextExtract]_vars

(***************************************************************************)
(* Claims about extract_ng_data_from_subcategories.                        *)
(***************************************************************************)
\* the expanded words of the data that are not empty
NonEmptyWords ==
    LET words == ExpandedWords(subcategory_data, PLACEHOLDER_VALUES)
    IN  {words[k] : k \in {j \in 1..Len(words) : words[j].final_word # <<>>}}

Records == {extract_out.ng_words[r] : r \in 1..Len(extract_out.ng_words)}

\* C14: the rule map holds one record for each pair of an expanded phrase and
\* the category label of a subcategory the phrase is a target word of, and no
\* two records for one pair.
C14_OneRecordPerPhraseAndCategory ==
    (pc = "extracted" /\ extract_kwargs = NoKwargs) =>
        /\ extract_out.raised = "none"
        /\ \A w \in NonEmptyWords : \E r \in Records :
               r.original = w.final_word /\ r.category = CategoryStr(w.sub_cat.name)
        /\ \A r1, r2 \in 1..Len(extract_out.ng_words) :
               (/\ extract_out.ng_words[r1].original = extract_out.ng_words[r2].original
                /\ extract_out.ng_words[r1].category = extract_out.ng_words[r2].category)
                   => r1 = r2

\* an entry passes the filters of a call with a selected usage and product
Passes(item, kwargs) ==
    /\ item.usage # <<>> =>
           \E u \in 1..Len(item.usage[1]) : <<item.usage[1][u]>> = kwargs.selected_usage
    /\ item.products # <<>>
    /\ \E q \in 1..Len(item.products[1]) :
           <<item.products[1][q]>> = kwargs.selected_product

\* C15: a call with a selected usage and a selected product returns a map
\* whose phrases are those of the entries that pass the usage filter and the
\* product filter.
C15_UsageAndProductFilter ==
    (pc = "extracted" /\ extract_kwargs.selected_usage # <<>>
                      /\ extract_kwargs.selected_product # <<>>) =>
        /\ extract_out.raised = "none"
        /\ {r.original : r \in Records}
               = {w.final_word : w \in {v \in NonEmptyWords : Passes(v.item, extract_kwargs)}}

\* the value of a field for the medicated tier
Resolved(value) ==
    IF value.tiered
    THEN Plain(IF value.medicated # <<>> THEN value.medicated ELSE value.general)
    ELSE value

\* C16: a call for the medicated tier returns records whose reason, suggestion
\* and examples are resolved values, the medicated one when it is not empty and
\* the general one otherwise, and never the mapping by tier.
C16_TierResolved ==
    (pc = "extracted" /\ extract_kwargs.category_type = <<"medicated">>) =>
        /\ extract_out.raised = "none"
        /\ \A r \in Records : \E w \in NonEmptyWords :
               /\ r.original = w.final_word
               /\ r.reason = Resolved(w.item.reason)
               /\ r.suggestion = Resolved(w.item.suggestion)
               /\ r.examples = Resolved(w.item.examples)

(***************************************************************************)
(* check_ingredient_context                                                *)
(***************************************************************************)
MaxContextLen == 3

\* s[i:j] for any integers i and j: a negative bound counts from the end,
\* and both are clamped to the string
PySliceAny(s, i, j) ==
    LET Bound(b) == IF b < 0 THEN (IF Len(s) + b < 0 THEN 0 ELSE Len(s) + b)
                    ELSE IF b > Len(s) THEN Len(s) ELSE b
    IN  Slice(s, Bound(i), Bound(j))

\* normalized_text[window_start:window_end] around the match
ContextWindow(normalized_text, start, end, window) ==
    LET window_start == IF start - window > 0 THEN start - window ELSE 0
        window_end == IF Len(normalized_text) < end + window
                      THEN Len(normalized_text) ELSE end + window
    IN  PySliceAny(normalized_text, window_start, window_end)

\* re.finditer(re.escape(literal), text, re.IGNORECASE), as a list of spans
FindLiteral(literal, text) == FindIter(ReCompile(Escape(literal)), text)

\* the flag excluded: a match of an exclusion variant, as it is written, in
\* the normalized text runs from start or before to end or after
Excluded(exclusion_variants, normalized_text, start, end) ==
    \E x \in 1..Len(exclusion_variants) :
        \E m_excl \in {FindLiteral(exclusion_variants[x], normalized_text)[k] :
                          k \in 1..Len(FindLiteral(exclusion_variants[x], normalized_text))} :
            m_excl[1] <= start /\ m_excl[2] >= end

\* any(re.search(re.escape(norm_eff), context, re.IGNORECASE) for ...)
EffectFound(normalized_effect_variants, context) ==
    \E f \in 1..Len(normalized_effect_variants) :
        FindLiteral(normalized_effect_variants[f], context) # <<>>

\* the loop over the matches of one ingredient variant
RECURSIVE IngredientMatchLoop(_, _, _, _, _)
IngredientMatchLoop(call, orig_ing, matches, i, acc) ==
    IF i > Len(matches) \/ acc.raised # "none" THEN acc
    ELSE LET start == matches[i][1]
             end == matches[i][2]
             context == ContextWindow(call.normalized_text, start, end, call.window)
             orig_start == ListIndex(call.mapping, start)
             orig_last == ListIndex(call.mapping, end - 1)
         IN  IF Excluded(call.exclusion_variants, call.normalized_text, start, end)
                 \/ EffectFound(call.normalized_effect_variants, context)
             THEN IngredientMatchLoop(call, orig_ing, matches, i + 1, acc)
             ELSE IF ~orig_start.ok \/ ~orig_last.ok
             THEN [acc EXCEPT !.raised = "IndexError"]
             ELSE IngredientMatchLoop(call, orig_ing, matches, i + 1,
                      [acc EXCEPT !.violations = Append(@,
                          [ingredient |-> orig_ing,
                           context |-> context,
                           start |-> orig_start.value,
                           end |-> orig_last.value + 1])])

\* the loop over the ingredient variants, each with its normalized form
RECURSIVE IngredientLoop(_, _, _, _)
IngredientLoop(call, ingredient_variants, v, acc) ==
    IF v > Len(ingredient_variants) \/ acc.raised # "none" THEN acc
    ELSE IngredientLoop(call, ingredient_variants, v + 1,
             IngredientMatchLoop(call, ingredient_variants[v],
                 FindLiteral(normalize_text_for_matching(ingredient_variants[v]).text,
                             call.normalized_text),
                 1, acc))

\* args.exclusion_placeholder is a sequence of no value (None) or of one
check_ingredient_context(args, table) ==
    LET ingredient_variants == expand_placeholders(args.ingredient_placeholder, table)
        effect_variants == expand_placeholders(args.effect_placeholder, table)
        exclusion_variants ==
            IF args.exclusion_placeholder = <<>> THEN <<>>
            ELSE expand_placeholders(args.exclusion_placeholder[1], table)
        norm == normalize_text_for_matching(args.ad_text)
        variants == ingredient_variants \o effect_variants
        raising == {k \in 1..Len(variants) :
                       normalize_text_for_matching(variants[k]).raised # "none"}
        call == [normalized_text |-> norm.text,
                 mapping |-> norm.mapping,
                 window |-> args.window,
                 exclusion_variants |-> exclusion_variants,
                 normalized_effect_variants |->
                     [f \in 1..Len(effect_variants) |->
                         normalize_text_for_matching(effect_variants[f]).text]]
    IN  IF raising # {}
        THEN [raised |-> normalize_text_for_matching(
                             variants[CHOOSE k \in raising : \A j \in raising : k <= j]).raised,
              violations |-> <<>>]
        ELSE IF norm.raised # "none" THEN [raised |-> norm.raised, violations |-> <<>>]
        ELSE IngredientLoop(call, ingredient_variants, 1,
                            [raised |-> "none", violations |-> <<>>])

\* the placeholder names of the docstring example, and its table with short
\* values: an ingredient in katakana and one in Latin letters, one purpose
SEIBUN == <<83, 69, 73, 66, 85, 78>>
MOKUTEKI == <<77, 79, 75, 85, 84, 69, 75, 73>>

SeibunTable ==
    << [name |-> SEIBUN, values |-> << <<12498>>, <<97>> >>],
       [name |-> MOKUTEKI, values |-> << <<98>> >>] >>

ContextChars == {97, 98, 12498, SPACE}

IngredientPlaceholders == {Token(SEIBUN), <<97>>, <<97, 97>>, <<12498>>, <<>>}

EffectPlaceholders == {Token(MOKUTEKI), <<120>>}

ExclusionPlaceholders == {<<>>, << <<97>> >>, << <<97, 97>> >>, << <<12498>> >>, << <<97, 98>> >>}

Windows == {-1, 0, 1, 80}

InitContext ==
    /\ pc = "init"
    /\ ad_text = <<>>
    /\ ng_words = <<>>
    /\ template = <<>>
    /\ placeholders = <<>>
    /\ PLACEHOLDER_VALUES = SeibunTable
    /\ norm_out = NoNorm
    /\ renorm_out = NoNorm
    /\ mask_out = NoMask
    /\ detect_out = NoDetect
    /\ expand_out = NoExpand
    /\ CompileIdle
    /\ CacheIdle
    /\ ExtractIdle
    /\ HighlightIdle
    /\ UiIdle
    /\ LateIdle
    /\ context_args \in
           [ad_text : SeqsUpTo(ContextChars, MaxContextLen),
            ingredient_placeholder : IngredientPlaceholders,
            effect_placeholder : EffectPlaceholders,
            exclusion_placeholder : ExclusionPlaceholders,
            window : Windows]
    /\ context_out = NoContext

\* a call check_ingredient_context(ad_text, ingredient_placeholder,
\* effect_placeholder, exclusion_placeholder, window)
CheckContext ==
    /\ pc = "init"
    /\ context_out' = check_ingredient_context(context_args, PLACEHOLDER_VALUES)
    /\ pc' = "checked"
    /\ UNCHANGED <<coreVars, compileVars, cacheVars, extractVars, highlightVars, uiVars, lateVars>>
    /\ UNCHANGED context_args

NextContext == CheckContext

SpecContext == InitContext /\ [][NextContext]_vars

(***************************************************************************)
(* Claims about check_ingredient_context.                                  *)
(***************************************************************************)
\* the normalized forms of the variants a placeholder text expands to
Forms(placeholder) ==
    LET variants == expand_placeholders(placeholder, PLACEHOLDER_VALUES)
    IN  {Normalized(variants[k]) : k \in 1..Len(variants)}

\* the occurrences [s, e) of a non-empty form in text, case ignored
Occurrences(form, text) ==
    IF form = <<>> THEN {}
    ELSE {<<i, i + Len(form)>> : i \in {j \in 0..Len(text) : LiteralAt(form, text, j)}}

IngredientOccurrences ==
    UNION {Occurrences(form, Normalized(context_args.ad_text)) :
               form \in Forms(context_args.ingredient_placeholder)}

\* an occurrence of an exclusion variant covers [s, e)
Covered_ByExclusion(occ) ==
    /\ context_args.exclusion_placeholder # <<>>
    /\ \E form \in Forms(context_args.exclusion_placeholder[1]) :
           \E x \in Occurrences(form, Normalized(context_args.ad_text)) :
               x[1] <= occ[1] /\ x[2] >= occ[2]

\* a violation is reported for the occurrence, at its offsets in the text
ReportedAt(occ) ==
    LET mapping == normalize_text_for_matching(context_args.ad_text).mapping
    IN  \E v \in 1..Len(context_out.violations) :
            /\ context_out.violations[v].start = mapping[occ[1] + 1]
            /\ context_out.violations[v].end = mapping[occ[2]] + 1

\* C17: an ingredient occurrence covered by an occurrence of an exclusion
\* variant is not reported, whether or not a purpose is near.
C17_CoveredOccurrenceNotReported ==
    (pc = "checked" /\ context_out.raised = "none") =>
        \A occ \in IngredientOccurrences : Covered_ByExclusion(occ) => ~ReportedAt(occ)

\* a purpose variant occurs inside the window around the occurrence
PurposeNear(occ) ==
    LET context == ContextWindow(Normalized(context_args.ad_text), occ[1], occ[2],
                                 context_args.window)
    IN  \E form \in Forms(context_args.effect_placeholder) :
            \E i \in 0..Len(context) : LiteralAt(form, context, i)

\* C18: the call never raises, and an ingredient occurrence that no exclusion
\* covers is reported, at its back-mapped offsets, exactly when no purpose
\* variant occurs inside the clamped window around it.
C18_ReportedIffNoPurposeNear ==
    pc = "checked" =>
        /\ context_out.raised = "none"
        /\ \A occ \in IngredientOccurrences :
               ~Covered_ByExclusion(occ) => (ReportedAt(occ) <=> ~PurposeNear(occ))

(***************************************************************************)
(* highlight_prohibited_phrases                                            *)
(***************************************************************************)
MaxHighlightLen == 3
MaxViolations == 2

\* "<span style='background-color:#FFCCCC; color:red; font-weight:bold;'>"
SPAN_OPEN ==
    <<60, 115, 112, 97, 110, 32, 115, 116, 121, 108, 101, 61, 39, 98, 97, 99, 107, 103,
      114, 111, 117, 110, 100, 45, 99, 111, 108, 111, 114, 58, 35, 70, 70, 67, 67, 67, 67,
      59, 32, 99, 111, 108, 111, 114, 58, 114, 101, 100, 59, 32, 102, 111, 110, 116, 45,
      119, 101, 105, 103, 104, 116, 58, 98, 111, 108, 100, 59, 39, 62>>

\* "</span>"
SPAN_CLOSE == <<60, 47, 115, 112, 97, 110, 62>>

\* the loop over the sorted violations, from the k-th on
RECURSIVE HighlightLoop(_, _, _, _, _)
HighlightLoop(text, sorted, k, highlighted_text, last_end) ==
    IF k > Len(sorted) THEN highlighted_text \o PySliceAny(text, last_end, Len(text))
    ELSE HighlightLoop(text, sorted, k + 1,
             highlighted_text \o PySliceAny(text, last_end, sorted[k].start)
                 \o SPAN_OPEN \o PySliceAny(text, sorted[k].start, sorted[k].end)
                 \o SPAN_CLOSE,
             sorted[k].end)

highlight_prohibited_phrases(text, violations) ==
    HighlightLoop(text, SortByStart(violations), 1, <<>>, 0)

HighlightChars == {97, 98}

\* the spans [start, end) inside a text of length n
Spans(n) == {sp \in [start : 0..n, end : 0..n] : sp.start <= sp.end}

\* no two violations of the list overlap, by the test of the detection, and
\* no span is listed twice
NonOverlapping(violations) ==
    \A i, j \in 1..Len(violations) :
        i # j => /\ ~(violations[i].start < violations[j].end
                      /\ violations[i].end > violations[j].start)
                 /\ violations[i] # violations[j]

InitHighlight ==
    /\ pc = "init"
    /\ CoreIdle
    /\ CompileIdle
    /\ CacheIdle
    /\ ExtractIdle
    /\ ContextIdle
    /\ UiIdle
    /\ LateIdle
    /\ \E text \in SeqsUpTo(HighlightChars, MaxHighlightLen) :
           \E violations \in SeqsUpTo(Spans(Len(text)), MaxViolations) :
               /\ NonOverlapping(violations)
               /\ highlight_args = [ad_text |-> text, violations |-> violations]
    /\ highlight_out = <<>>

\* a call highlight_prohibited_phrases(ad_text, violations)
Highlight ==
    /\ pc = "init"
    /\ highlight_out' = highlight_prohibited_phrases(highlight_args.ad_text,
                                                     highlight_args.violations)
    /\ pc' = "highlighted"
    /\ UNCHANGED <<coreVars, compileVars, cacheVars, extractVars, contextVars, uiVars, lateVars>>
    /\ UNCHANGED highlight_args

NextHighlight == Highlight

SpecHighlight == InitHighlight /\ [][NextHighlight]_vars

(***************************************************************************)
(* Claims about highlight_prohibited_phrases.                              *)
(***************************************************************************)
\* the text with the spans of the set wrapped, from offset i on, taking the
\* spans from left to right
RECURSIVE WrappedFrom(_, _, _)
WrappedFrom(text, spans, i) ==
    IF spans = {} THEN PySliceAny(text, i, Len(text))
    ELSE LET sp == CHOOSE a \in spans : \A b \in spans :
                       a.start < b.start \/ (a.start = b.start /\ a.end <= b.end)
         IN  PySliceAny(text, i, sp.start) \o SPAN_OPEN
                 \o PySliceAny(text, sp.start, sp.end) \o SPAN_CLOSE
                 \o WrappedFrom(text, spans \ {sp}, sp.end)

\* the string with the markup taken out
Unmarked(html) == Replace(Replace(html, SPAN_OPEN, <<>>), SPAN_CLOSE, <<>>)

\* C19: for a list of violations that do not overlap, the output is the text
\* with each span wrapped once, taken in ascending start offset; without the
\* markup it is the text; and every permutation of the list gives the same
\* output.
C19_OrderInsensitiveHighlight ==
    pc = "highlighted" =>
        \A text \in {highlight_args.ad_text} : \A violations \in {highlight_args.violations} :
            /\ highlight_out =
                   WrappedFrom(text, {violations[k] : k \in 1..Len(violations)}, 0)
            /\ Unmarked(highlight_out) = text
            /\ \A f \in Permutations(1..Len(violations)) :
                   highlight_prohibited_phrases(
                       text, [k \in 1..Len(violations) |-> violations[f[k]]])
                       = highlight_out

(***************************************************************************)
(* ui: script runs of several sessions, each in its own thread, sharing    *)
(* the st.cache_data cache of get_ng_words.  A script run calls            *)
(* get_ng_words, which on a miss loads the rule database and builds the    *)
(* map in a dict of its own, word by word, and stores it on return; the    *)
(* detection then reads the map the run holds, rule by rule.  The reload   *)
(* button clears the cache and reruns the script.                          *)
(***************************************************************************)
NumSessions == 2

Sessions == 1..NumSessions

\* the subcategories of the two versions of the rule database
RuleData(version) ==
    LET sub(name, i) == [name |-> <<20849, 36890>> \o name, usage |-> <<"A">>,
                         items |-> <<EntryPool[i]>>]
    IN  IF version = "old"
        THEN << [group |-> "common", subcategories |-> <<sub(<<65>>, 1)>>] >>
        ELSE << [group |-> "common",
                 subcategories |-> <<sub(<<65>>, 2), sub(<<66>>, 4)>>] >>

\* the dict ng_words of extract_ng_data_from_subcategories after k rounds of
\* its innermost loop
MapAfter(version, k, table) ==
    RegisterLoop(SubSeq(ExpandedWords(RuleData(version), table), 1, k), 1,
                 [raised |-> "none", ng_words |-> <<>>]).ng_words

Rounds(version, table) == Len(ExpandedWords(RuleData(version), table))

\* what the cache holds after a round of the loop of a call in progress: the
\* loop fills a local dict, the cache is not touched
CacheAfterRound_PartialVisible(cached, building) == <<building>>

CacheAfterRound(cached, building) == cached

\* the advertisement checked: "ab"
CheckedAd == <<97, 98>>

IdleSession ==
    [at |-> "idle", data |-> "none", k |-> 0, ng_dict |-> <<>>, i |-> 0, used |-> {},
     violations |-> NoDetect]

InitUi ==
    /\ pc = "init"
    /\ CoreIdle
    /\ CompileIdle
    /\ CacheIdle
    /\ ExtractIdle
    /\ ContextIdle
    /\ HighlightIdle
    /\ LateIdle
    /\ rule_db = "old"
    /\ st_cache = <<>>
    /\ session = [s \in Sessions |-> IdleSession]

uiFrame == <<pc, coreVars, compileVars, cacheVars, extractVars, contextVars,
             highlightVars, lateVars>>

\* NGword.json is replaced by a new version
UpdateDatabase ==
    /\ rule_db = "old"
    /\ rule_db' = "new"
    /\ UNCHANGED <<uiFrame, st_cache, session>>

\* render_sidebar: the reload button clears the cache and reruns the script
ClickReload ==
    \E s \in Sessions :
        /\ session[s].at = "idle"
        /\ st_cache' = <<>>
        /\ UNCHANGED <<uiFrame, rule_db, session>>

\* get_ng_words, the value is cached: the run gets a copy of it
GetNgWordsHit ==
    \E s \in Sessions :
        /\ session[s].at = "idle"
        /\ st_cache # <<>>
        /\ session' = [session EXCEPT ![s].at = "ready", ![s].ng_dict = st_cache[1]]
        /\ UNCHANGED <<uiFrame, rule_db, st_cache>>

\* get_ng_words, nothing is cached: load_json reads the database and
\* extract_ng_data_from_subcategories starts with an empty dict
GetNgWordsMiss ==
    \E s \in Sessions :
        /\ session[s].at = "idle"
        /\ st_cache = <<>>
        /\ session' = [session EXCEPT ![s].at = "building", ![s].data = rule_db, ![s].k = 0]
        /\ UNCHANGED <<uiFrame, rule_db, st_cache>>

\* one round of the innermost loop of extract_ng_data_from_subcategories
BuildRound ==
    \E s \in Sessions :
        /\ session[s].at = "building"
        /\ session[s].k < Rounds(session[s].data, PLACEHOLDER_VALUES)
        /\ session' = [session EXCEPT ![s].k = @ + 1]
        /\ st_cache' = CacheAfterRound(st_cache,
               MapAfter(session[s].data, session[s].k + 1, PLACEHOLDER_VALUES))
        /\ UNCHANGED <<uiFrame, rule_db>>

\* extract_ng_data_from_subcategories and get_ng_words return: the map is
\* stored in the cache and handed to the run
BuildReturn ==
    \E s \in Sessions :
        /\ session[s].at = "building"
        /\ session[s].k = Rounds(session[s].data, PLACEHOLDER_VALUES)
        /\ \A built \in {MapAfter(session[s].data, session[s].k, PLACEHOLDER_VALUES)} :
               /\ session' = [session EXCEPT ![s].at = "ready", ![s].ng_dict = built]
               /\ st_cache' = <<built>>
        /\ UNCHANGED <<uiFrame, rule_db>>

\* the check button: check_advertisement_with_categories_masking starts and
\* reads the map for the masking
StartCheck ==
    \E s \in Sessions :
        /\ session[s].at = "ready"
        /\ session' = [session EXCEPT ![s].at = "detecting", ![s].i = 0,
                                      ![s].used = {session[s].ng_dict}]
        /\ UNCHANGED <<uiFrame, rule_db, st_cache>>

\* one round of the loop over the rules: the rule's record is read
DetectRound ==
    \E s \in Sessions :
        /\ session[s].at = "detecting"
        /\ session[s].i < Len(session[s].ng_dict)
        /\ session' = [session EXCEPT ![s].i = @ + 1,
                                      ![s].used = @ \cup {session[s].ng_dict}]
        /\ UNCHANGED <<uiFrame, rule_db, st_cache>>

\* check_advertisement_with_categories_masking returns
DetectReturn ==
    \E s \in Sessions :
        /\ session[s].at = "detecting"
        /\ session[s].i = Len(session[s].ng_dict)
        /\ session' = [session EXCEPT
               ![s].at = "done",
               ![s].violations =
                   check_advertisement_with_categories_masking(CheckedAd, session[s].ng_dict)]
        /\ UNCHANGED <<uiFrame, rule_db, st_cache>>

\* any interaction reruns the script from its start
Rerun ==
    \E s \in Sessions :
        /\ session[s].at \in {"ready", "done"}
        /\ session' = [session EXCEPT ![s] = IdleSession]
        /\ UNCHANGED <<uiFrame, rule_db, st_cache>>

NextUi ==
    \/ UpdateDatabase
    \/ ClickReload
    \/ GetNgWordsHit
    \/ GetNgWordsMiss
    \/ BuildRound
    \/ BuildReturn
    \/ StartCheck
    \/ DetectRound
    \/ DetectReturn
    \/ Rerun

SpecUi == InitUi /\ [][NextUi]_vars

(***************************************************************************)
(* Claims about the reload.                                                *)
(***************************************************************************)
CompleteMap(version) == MapAfter(version, Rounds(version, PLACEHOLDER_VALUES), PLACEHOLDER_VALUES)

\* C20: a detection call reads, in all its rounds, one and the same rule map,
\* which is the complete map of the old database or the complete map of the
\* new one, and its result is the detection with that map.
C20_ReloadAtomic ==
    \A complete \in {[version \in {"old", "new"} |-> CompleteMap(version)]} :
        \A s \in DOMAIN session :
            session[s].at \in {"detecting", "done"} =>
                /\ session[s].used \in {{complete["old"]}, {complete["new"]}}
                /\ session[s].at = "done" =>
                       \E version \in {"old", "new"} :
                           /\ session[s].used = {complete[version]}
                           /\ session[s].violations =
                                  check_advertisement_with_categories_masking(
                                      CheckedAd, complete[version])

\* a detection with the old map is in flight while, after a reload, another
\* run has built part of the new map
C20_Witness ==
    \E s, t \in DOMAIN session :
        /\ session[s].at = "detecting"
        /\ session[s].i > 0
        /\ session[s].ng_dict = CompleteMap("old")
        /\ session[t].at = "building"
        /\ session[t].data = "new"
        /\ session[t].k > 0
        /\ session[t].k < Rounds("new", PLACEHOLDER_VALUES)

(***************************************************************************)
(* merge_violations (src/ui.py): items the list already covers are dropped *)
(***************************************************************************)
MaxMergeItems == 3
MaxMergeOffset == 5

\* abs(n)
Abs(n) == IF n < 0 THEN -n ELSE n

\* a variant that also takes offsets that differ by exactly the tolerance as
\* the same position
IsDuplicate_Inclusive(v, m, tolerance) ==
    \/ v.start >= m.start /\ v.end <= m.end
    \/ Abs(v.start - m.start) <= tolerance /\ Abs(v.end - m.end) <= tolerance

\* the condition of the inner loop: m contains v, or both offsets are nearly
\* the same
IsDuplicate(v, m, tolerance) ==
    \/ v.start >= m.start /\ v.end <= m.end
    \/ Abs(v.start - m.start) < tolerance /\ Abs(v.end - m.end) < tolerance

\* the inner loop over merged: dup
Dup(v, merged, tolerance) == \E i \in 1..Len(merged) : IsDuplicate(v, merged[i], tolerance)

\* the outer loop over violations, from the k-th on
RECURSIVE MergeLoop(_, _, _, _)
MergeLoop(violations, tolerance, k, merged) ==
    IF k > Len(violations) THEN merged
    ELSE MergeLoop(violations, tolerance, k + 1,
                   IF Dup(violations[k], merged, tolerance) THEN merged
                   ELSE Append(merged, violations[k]))

merge_violations(violations, tolerance) == MergeLoop(violations, tolerance, 1, <<>>)

\* the tolerances of the calls: the default 2, and 0 and 1
Tolerances == {0, 1, 2}

\* the spans of the reported items: non-empty, inside a text of MaxMergeOffset
\* characters
MergeSpans == {sp \in Spans(MaxMergeOffset) : sp.start < sp.end}

InitMerge ==
    /\ pc = "init"
    /\ CoreIdle
    /\ EarlyIdle
    /\ SameIdle
    /\ FeedbackIdle
    /\ FlagIdle
    /\ \E violations \in SeqsUpTo(MergeSpans, MaxMergeItems) :
           \E tolerance \in Tolerances :
               merge_args = [violations |-> violations, tolerance |-> tolerance]
    /\ merge_out = <<>>

\* a call merge_violations(violations, tolerance)
Merge ==
    /\ pc = "init"
    /\ merge_out' = merge_violations(merge_args.violations, merge_args.tolerance)
    /\ pc' = "merged"
    /\ UNCHANGED <<earlyVars, sameVars, feedbackVars, flagVars>>
    /\ UNCHANGED merge_args

NextMerge == Merge

SpecMerge == InitMerge /\ [][NextMerge]_vars

(***************************************************************************)
(* Claims about merge_violations.                                          *)
(***************************************************************************)
\* span b lies inside span a
SpanInside(a, b) == b.start >= a.start /\ b.end <= a.end

\* the start and the end of b are each less than t away from those of a
WithinTolerance(a, b, t) ==
    /\ a.start - b.start < t /\ b.start - a.start < t
    /\ a.end - b.end < t /\ b.end - a.end < t

\* item k is kept: no kept item before it contains it or is within tolerance
RECURSIVE IsKept(_, _, _)
IsKept(items, t, k) ==
    ~\E j \in 1..(k - 1) :
        /\ IsKept(items, t, j)
        /\ SpanInside(items[j], items[k]) \/ WithinTolerance(items[j], items[k], t)

\* the items of the list at the indices of the set, in input order
RECURSIVE Picked(_, _, _)
Picked(items, keep, k) ==
    IF k > Len(items) THEN <<>>
    ELSE (IF k \in keep THEN <<items[k]>> ELSE <<>>) \o Picked(items, keep, k + 1)

MaxSameItems == 3

\* the first and the last index of the run of ASCII spaces that holds s[i]
RECURSIVE SpaceRunFirst(_, _)
SpaceRunFirst(s, i) == IF i > 1 /\ s[i - 1] = SPACE THEN SpaceRunFirst(s, i - 1) ELSE i
RECURSIVE SpaceRunLast(_, _)
SpaceRunLast(s, i) == IF i < Len(s) /\ s[i + 1] = SPACE THEN SpaceRunLast(s, i + 1) ELSE i

\* (?<=\S) +(?=\S) matches the run from first to last: a character that is not
\* whitespace stands before it and after it
RunBetweenWords(s, first, last) ==
    /\ first > 1 /\ ~IsSpaceChar(s[first - 1])
    /\ last < Len(s) /\ ~IsSpaceChar(s[last + 1])

\* re.sub(r'(?<=\S) +(?=\S)', ' ', normalized): of a matched run the first
\* space stays
CollapseSpaces(s) ==
    Flatten([i \in 1..Len(s) |->
        IF s[i] = SPACE /\ i > 1 /\ s[i - 1] = SPACE
              /\ RunBetweenWords(s, SpaceRunFirst(s, i), SpaceRunLast(s, i))
        THEN <<>> ELSE <<s[i]>>])

normalize_text(text) ==
    CollapseSpaces(Flatten([k \in 1..Len(text) |-> _basic_normalize_char(text[k])]))

\* a variant that takes the expression first and the ingredient after it
RawKey_ExpressionFirst(v) == IF v.expression # <<>> THEN v.expression ELSE v.ingredient

\* v.get("ingredient") or v.get("表現"): a missing field and an empty string
\* are both passed over; <<>> stands for either
RawKey(v) == IF v.ingredient # <<>> THEN v.ingredient ELSE v.expression

\* key = normalize_text(raw_key) if raw_key else ""
SameKey(v) == IF RawKey(v) # <<>> THEN normalize_text(RawKey(v)) ELSE <<>>

\* the index of the entry of the dict with the key, 0 when it has none
KeyIndex(merged, key) ==
    IF \E i \in 1..Len(merged) : merged[i].key = key
    THEN CHOOSE i \in 1..Len(merged) : merged[i].key = key
    ELSE 0

\* the loop over violations, from the k-th on; merged is the dict in insertion
\* order, its values the items with their count
RECURSIVE SameLoop(_, _, _)
\* one item: at is the index of its key in merged
SameStep(violations, k, merged, at) ==
    IF at > 0
    THEN SameLoop(violations, k + 1, [merged EXCEPT ![at].count = @ + 1])
    ELSE SameLoop(violations, k + 1,
                  Append(merged, [key |-> SameKey(violations[k]),
                                  item |-> violations[k], count |-> 1]))

SameLoop(violations, k, merged) ==
    IF k > Len(violations) THEN merged
    ELSE SameStep(violations, k, merged, KeyIndex(merged, SameKey(violations[k])))

\* list(merged.values()): the items, each with its count
DictValues(merged) ==
    [i \in 1..Len(merged) |-> [item |-> merged[i].item, count |-> merged[i].count]]

merge_same_ng_violations(violations) == DictValues(SameLoop(violations, 1, <<>>))

\* the words of the items: "a", "A", full-width "ａ", "a b", "a  b", "b"
SameWords ==
    {<<97>>, <<65>>, <<65345>>, <<97, SPACE, 98>>, <<97, SPACE, SPACE, 98>>, <<98>>}

\* the items of a call: an item of the detection has an expression, one of the
\* context check an ingredient, and the test gives both
SameItems ==
    [ingredient : {<<>>, <<65>>, <<98>>}, expression : SameWords \cup {<<>>}]

InitSame ==
    /\ pc = "init"
    /\ CoreIdle
    /\ EarlyIdle
    /\ MergeIdle
    /\ FeedbackIdle
    /\ FlagIdle
    /\ \E items \in SeqsUpTo(SameItems, MaxSameItems) :
           same_args = [k \in 1..Len(items) |->
                           [ingredient |-> items[k].ingredient,
                            expression |-> items[k].expression, start |-> k - 1]]
    /\ same_out = <<>>

\* a call merge_same_ng_violations(violations)
MergeSame ==
    /\ pc = "init"
    /\ same_out' = merge_same_ng_violations(same_args)
    /\ pc' = "counted"
    /\ UNCHANGED <<earlyVars, mergeVars, feedbackVars, flagVars>>
    /\ UNCHANGED same_args

NextSame == MergeSame

SpecSame == InitSame /\ [][NextSame]_vars

(***************************************************************************)
(* Claims about merge_same_ng_violations.                                  *)
(***************************************************************************)
\* the key of the claim: normalize_text of the ingredient if the item has one,
\* and of the expression otherwise
WordKey(v) == normalize_text(IF v.ingredient # <<>> THEN v.ingredient ELSE v.expression)

\* the sum of the counts of the records
RECURSIVE CountSum(_)
CountSum(records) ==
    IF records = <<>> THEN 0 ELSE Head(records).count + CountSum(Tail(records))

\* C22: the result has exactly one record for each key of the input; the
\* record is the first input item with the key, its count the number of input
\* items with the key; the counts sum to the length of the input.
C22_OneRecordPerKey ==
    pc = "counted" =>
        \A items \in {same_args} : \A records \in {same_out} :
            /\ \A k \in 1..Len(items) :
                   \E i \in 1..Len(records) : WordKey(records[i].item) = WordKey(items[k])
            /\ \A i, j \in 1..Len(records) :
                   WordKey(records[i].item) = WordKey(records[j].item) => i = j
            /\ \A i \in 1..Len(records) :
                   /\ \E k \in 1..Len(items) :
                          /\ records[i].item = items[k]
                          /\ \A h \in 1..(k - 1) : WordKey(items[h]) # WordKey(items[k])
                   /\ records[i].count =
                          Cardinality({k \in 1..Len(items) :
                                           WordKey(items[k]) = WordKey(records[i].item)})
            /\ CountSum(records) = Len(items)

\* three items of one word, with the ingredient, without it and written in full
\* width, are counted in one record
C22_Witness ==
    /\ pc = "counted"
    /\ Len(same_args) = 3
    /\ same_args[1].ingredient # <<>>
    /\ same_args[1].expression # <<>>
    /\ WordKey(same_args[1]) # normalize_text(same_args[1].expression)
    /\ same_args[2].ingredient = <<>>
    /\ same_args[2].expression # same_args[1].ingredient
    /\ Len(same_out) = 1
    /\ same_out[1].count = 3

(***************************************************************************)
(* submit_feedback (src/ui.py): the callback of the sidebar's send button  *)
(***************************************************************************)
MaxFeedbackLen == 2

\* str.strip(): the whitespace at both ends is taken off
RECURSIVE LStrip(_)
LStrip(s) == IF s # <<>> /\ IsSpaceChar(Head(s)) THEN LStrip(Tail(s)) ELSE s
RECURSIVE RStrip(_)
RStrip(s) ==
    IF s # <<>> /\ IsSpaceChar(s[Len(s)]) THEN RStrip(SubSeq(s, 1, Len(s) - 1)) ELSE s
Strip(s) == RStrip(LStrip(s))

\* the messages the callback leaves in feedback_message
MSG_THANKS == "thank you for the feedback"
MSG_FAILED == "sending failed"
MSG_ERROR == "an error occurred while sending"
MSG_EMPTY == "enter text before sending"

\* a variant that takes the status 200 alone as a success
Accepted_200Only(status_code) == status_code = "200"

\* resp.status_code in (200, 302); a status code is written as its digits
Accepted(status_code) == status_code \in {"200", "302"}

\* what requests.post does: it returns a response with one of these status
\* codes, or raises
Responses == {"200", "302", "404", "500", "exception"}

\* the body of submit_feedback with the response the request gets; the result
\* is the session state after the call and what the call did
submit_feedback(state, response) ==
    IF Strip(state.feedback_area) # <<>>
    THEN IF response = "exception"
         THEN [state |-> [state EXCEPT !.feedback_message = MSG_ERROR],
               posted |-> <<state.feedback_area>>, response |-> response]
         ELSE IF Accepted(response)
         THEN [state |-> [feedback_area |-> <<>>, feedback_message |-> MSG_THANKS],
               posted |-> <<state.feedback_area>>, response |-> response]
         ELSE [state |-> [state EXCEPT !.feedback_message = MSG_FAILED],
               posted |-> <<state.feedback_area>>, response |-> response]
    ELSE [state |-> [state EXCEPT !.feedback_message = MSG_EMPTY],
          posted |-> <<>>, response |-> "none"]

\* the characters typed into the text area: "a", a space, an ideographic space
FeedbackChars == {97, SPACE, IDEOGRAPHIC_SPACE}

InitFeedback ==
    /\ pc = "init"
    /\ CoreIdle
    /\ EarlyIdle
    /\ MergeIdle
    /\ SameIdle
    /\ FeedbackIdle
    /\ FlagIdle

\* the user edits the text area (st.sidebar.text_area, key feedback_area)
TypeFeedback ==
    /\ \E text \in SeqsUpTo(FeedbackChars, MaxFeedbackLen) :
           session_state' = [session_state EXCEPT !.feedback_area = text]
    /\ pc' = "typed"
    /\ UNCHANGED feedback_call
    /\ UNCHANGED <<earlyVars, mergeVars, sameVars, flagVars>>

\* the user clicks the send button: submit_feedback runs as its on_click
SubmitFeedback ==
    /\ \E response \in Responses :
           \A done \in {submit_feedback(session_state, response)} :
               /\ session_state' = done.state
               /\ feedback_call' = [area |-> session_state.feedback_area,
                                    posted |-> done.posted,
                                    response |-> done.response,
                                    raised |-> "none"]
    /\ pc' = "submitted"
    /\ UNCHANGED <<earlyVars, mergeVars, sameVars, flagVars>>

NextFeedback == TypeFeedback \/ SubmitFeedback

SpecFeedback == InitFeedback /\ [][NextFeedback]_vars

(***************************************************************************)
(* Claims about submit_feedback.                                           *)
(***************************************************************************)
\* the text is empty or whitespace only
Blank(text) == \A k \in 1..Len(text) : IsSpaceChar(text[k])

\* C23: submit_feedback does not raise and leaves one outcome: for a blank
\* input the enter-text message and no request; for a response 200 or 302 the
\* thank-you message and an empty feedback_area; for another status the
\* failure message and for an exception the error message, feedback_area
\* unchanged in both; feedback_area is cleared exactly for 200 and 302.
C23_OneOutcome ==
    pc = "submitted" =>
        /\ feedback_call.raised = "none"
        /\ Blank(feedback_call.area) =>
               /\ session_state.feedback_message = MSG_EMPTY
               /\ feedback_call.posted = <<>>
               /\ session_state.feedback_area = feedback_call.area
        /\ ~Blank(feedback_call.area) =>
               /\ feedback_call.posted = <<feedback_call.area>>
               /\ feedback_call.response \in {"200", "302"} =>
                      /\ session_state.feedback_message = MSG_THANKS
                      /\ session_state.feedback_area = <<>>
               /\ feedback_call.response \in {"404", "500"} =>
                      /\ session_state.feedback_message = MSG_FAILED
                      /\ session_state.feedback_area = feedback_call.area
               /\ feedback_call.response = "exception" =>
                      /\ session_state.feedback_message = MSG_ERROR
                      /\ session_state.feedback_area = feedback_call.area
        /\ (session_state.feedback_area # feedback_call.area)
               <=> (feedback_call.posted # <<>> /\ feedback_call.response \in {"200", "302"})

\* a feedback with a space in it was sent and answered with 302, after an
\* earlier call had failed
C23_Witness ==
    /\ pc = "submitted"
    /\ feedback_call.response = "302"
    /\ Len(feedback_call.area) = 2
    /\ \E k \in 1..2 : IsSpaceChar(feedback_call.area[k])
    /\ session_state.feedback_area = <<>>
    /\ session_state.feedback_message = MSG_THANKS

(***************************************************************************)
(* insert_flags.py: replace_flags                                          *)
(***************************************************************************)
MaxBodyLines == 3

NEWLINE == 10
COLON == 58
FW_COLON == 65306
\* the bracket that closes a group header
GROUP_CLOSE == 12305
\* the bracket and the word that open a group header
GROUP_OPEN == <<12304, 12464, 12523, 12540, 12503>>
\* the starts of the two flag lines: "- " and the label, then ":"
USAGE_FLAG == <<45, 32, 29992, 36884, 21306, 20998, 58>>
PRODUCT_FLAG == <<45, 32, 35069, 21697, 21517, 58>>

\* the offset after the run \d+ that starts at offset i (i itself for no digit)
\* the least offset from i on that is the end of the text or holds a
\* character outside the set: the end of a greedy run that starts at i
FirstOutside(text, i, run) ==
    CHOOSE j \in i..Len(text) :
        /\ j = Len(text) \/ text[j + 1] \notin run
        /\ \A k \in i..(j - 1) : text[k + 1] \in run
DigitChars == (48..57) \cup (65296..65305)
DigitRunEnd(text, i) == IF i >= Len(text) THEN i ELSE FirstOutside(text, i, DigitChars)

\* the offset of the first "\n" at or after offset i, -1 for none
NextNewline(text, i) ==
    IF \A k \in i..(Len(text) - 1) : text[k + 1] # NEWLINE THEN -1
    ELSE CHOOSE j \in i..(Len(text) - 1) :
             /\ text[j + 1] = NEWLINE
             /\ \A k \in i..(j - 1) : text[k + 1] # NEWLINE

\* ^ of a MULTILINE pattern
IsLineStart(text, i) == i = 0 \/ text[i] = NEWLINE

\* the group-header start at offset i, matched up to the colon: the digits
\* and the offset after the colon, or next = -1 for no match
GroupHeadAt(text, i, d) ==
    IF /\ OccursAt(text, GROUP_OPEN, i)
       /\ d > i + Len(GROUP_OPEN)
       /\ d < Len(text)
       /\ text[d + 1] \in {COLON, FW_COLON}
    THEN [idx |-> PySliceAny(text, i + Len(GROUP_OPEN), d), next |-> d + 1]
    ELSE [idx |-> <<>>, next |-> -1]
GroupHead(text, i) == GroupHeadAt(text, i, DigitRunEnd(text, i + Len(GROUP_OPEN)))

\* the line "<flag>.*?\n" at offset i: the offset after its newline, or i
\* when the optional line is not there
FlagLineEnd(text, i, flag, nl) ==
    IF OccursAt(text, flag, i) /\ nl >= 0 THEN nl + 1 ELSE i
SkipFlagLine(text, i, flag) ==
    FlagLineEnd(text, i, flag, NextNewline(text, i + Len(flag)))

\* the cleaning pattern at offset i: the offset after the header line and
\* the offset after the flag lines that follow it; header = -1 for no match.
\* ".*?" holds no newline, so the closing bracket is the last character of
\* the header's own line.
CleanMatchAt(text, i, head, nl) ==
    IF /\ IsLineStart(text, i)
       /\ head.next >= 0
       /\ nl > head.next
       /\ text[nl] = GROUP_CLOSE
    THEN [header |-> nl + 1,
          end |-> SkipFlagLine(text, SkipFlagLine(text, nl + 1, USAGE_FLAG), PRODUCT_FLAG)]
    ELSE [header |-> -1, end |-> -1]
CleanMatch(text, i, head) ==
    IF head.next < 0 THEN [header |-> -1, end |-> -1]
    ELSE CleanMatchAt(text, i, head, NextNewline(text, head.next))

\* re.sub(<cleaning pattern>, r'\1', text, flags=re.MULTILINE), from the
\* line start i on: a match starts at a line start and ends after a "\n",
\* so the text is rewritten line by line
RECURSIVE CleanFrom(_, _)
CleanStep(text, i, found, nl) ==
    IF found.header >= 0
    THEN PySliceAny(text, i, found.header) \o CleanFrom(text, found.end)
    ELSE IF nl < 0 THEN PySliceAny(text, i, Len(text))
    ELSE PySliceAny(text, i, nl + 1) \o CleanFrom(text, nl + 1)
CleanFrom(text, i) ==
    IF i >= Len(text) THEN <<>>
    ELSE CleanStep(text, i, CleanMatch(text, i, GroupHead(text, i)), NextNewline(text, i))
Clean(text) == CleanFrom(text, 0)

\* the offset after the run \s* that starts at offset i
SpaceRunEnd(text, i) ==
    CHOOSE j \in i..Len(text) :
        /\ j = Len(text) \/ ~IsSpaceChar(text[j + 1])
        /\ \A k \in i..(j - 1) : IsSpaceChar(text[k + 1])

\* ".+?" then the closing bracket, the group starting at offset g0: the
\* offset of the first closing bracket after at least one character and
\* before any newline, -1 for none
ClosesAt(text, g0, k) ==
    /\ text[k + 1] = GROUP_CLOSE
    /\ \A n \in g0..(k - 1) : text[n + 1] # NEWLINE
FindClose(text, g0) ==
    IF \A k \in (g0 + 1)..(Len(text) - 1) : ~ClosesAt(text, g0, k) THEN -1
    ELSE CHOOSE k \in (g0 + 1)..(Len(text) - 1) :
             /\ ClosesAt(text, g0, k)
             /\ \A n \in (g0 + 1)..(k - 1) : ~ClosesAt(text, g0, n)

\* "\s*" is greedy and gives characters back: the group starts after the
\* longest part of the whitespace run that lets the rest match
RECURSIVE GroupFrom(_, _, _)
GroupFrom(text, lo, g0) ==
    IF g0 < lo THEN [start |-> -1, close |-> -1]
    ELSE IF FindClose(text, g0) >= 0
         THEN [start |-> g0, close |-> FindClose(text, g0)]
    ELSE GroupFrom(text, lo, g0 - 1)

\* grp_pat at offset i: idx, group and the offset after the match; end = -1
\* for no match
GroupMatchAt(text, head, found) ==
    IF head.next >= 0 /\ found.start >= 0
    THEN [idx |-> head.idx, group |-> PySliceAny(text, found.start, found.close),
          end |-> found.close + 1]
    ELSE [idx |-> <<>>, group |-> <<>>, end |-> -1]
GroupSearch(text, head) ==
    IF head.next < 0 THEN [start |-> -1, close |-> -1]
    ELSE GroupFrom(text, head.next, SpaceRunEnd(text, head.next))
GroupMatchOf(text, head) == GroupMatchAt(text, head, GroupSearch(text, head))
GroupMatch(text, i) == GroupMatchOf(text, GroupHead(text, i))

\* key in excel_cache, and excel_cache[key]; the cache is a set of records
\* with one record for a key
InCache(excel_cache, subcat, group) ==
    \E e \in excel_cache : e.subcat = subcat /\ e.group = group
CacheGet(excel_cache, subcat, group) ==
    (CHOOSE e \in excel_cache : e.subcat = subcat /\ e.group = group).flags

\* repl(m): the header written again with ": ", then the flags of the cache
GroupLine(idx, group) ==
    GROUP_OPEN \o idx \o <<COLON, SPACE>> \o group \o <<GROUP_CLOSE, NEWLINE>>
repl(m, subcat, excel_cache) ==
    IF ~InCache(excel_cache, subcat, Strip(m.group))
    THEN [raised |-> "FlagReplaceError", subcat |-> subcat, group |-> Strip(m.group),
          text |-> <<>>]
    ELSE [raised |-> "none", subcat |-> subcat, group |-> Strip(m.group),
          text |-> GroupLine(m.idx, Strip(m.group))
                     \o CacheGet(excel_cache, subcat, Strip(m.group))]

\* the offset of the leftmost match of grp_pat at or after offset i, -1
\* for none
NextGroup(text, i) ==
    IF \A k \in i..(Len(text) - 1) : GroupMatch(text, k).end < 0 THEN -1
    ELSE CHOOSE j \in i..(Len(text) - 1) :
             /\ GroupMatch(text, j).end >= 0
             /\ \A k \in i..(j - 1) : GroupMatch(text, k).end < 0

\* re.sub(grp_pat, repl, cleaned) from offset i on: the text between the
\* matches is kept, and the first exception ends the call
RECURSIVE SubFrom(_, _, _, _)
SubAfter(new, rest) ==
    IF rest.raised # "none" THEN rest
    ELSE [rest EXCEPT !.text = new \o rest.text]
SubRepl(text, m, subcat, excel_cache, new) ==
    IF new.raised # "none" THEN new
    ELSE SubAfter(new.text, SubFrom(text, m.end, subcat, excel_cache))
SubStep(text, i, subcat, excel_cache, j) ==
    IF j < 0 THEN [raised |-> "none", subcat |-> subcat, group |-> <<>>,
                   text |-> PySliceAny(text, i, Len(text))]
    ELSE SubAfter(PySliceAny(text, i, j),
                  SubRepl(text, GroupMatch(text, j), subcat, excel_cache,
                          repl(GroupMatch(text, j), subcat, excel_cache)))
SubFrom(text, i, subcat, excel_cache) == SubStep(text, i, subcat, excel_cache, NextGroup(text, i))

\* replace_flags(section, excel_cache): the text returned, or the exception
\* with the subcategory and the group of its message
replace_flags(section, excel_cache) ==
    SubFrom(Clean(section.header \o <<NEWLINE>> \o section.body), 0,
            section.name, excel_cache)

\* the lines of the test text (test_insert_flags.py, DUMMY_TEXT): a section
\* header "### 1.1 ...: A", group headers with either colon, a flag line of
\* each kind left by an earlier run, and a line of other text
SECTION_A == <<35, 35, 35, 32, 49, 46, 49, 32, 12469, 12502, 12459, 12486, 12468, 12522,
               58, 32, 65>>
NAME_A == <<65>>
GROUP_X == <<12304, 12464, 12523, 12540, 12503, 49, 58, 32, 88, 12305>>
GROUP_Y == <<12304, 12464, 12523, 12540, 12503, 50, 65306, 89, 12305>>
OLD_USAGE == <<45, 32, 29992, 36884, 21306, 20998, 58, 32, 111>>
OLD_PRODUCT == <<45, 32, 35069, 21697, 21517, 58, 32, 111>>
OTHER_LINE == <<45, 45>>
BodyLines == {GROUP_X, GROUP_Y, OLD_USAGE, OLD_PRODUCT, OTHER_LINE}

\* the values build_excel_cache makes: the two flag lines, each with its "\n"
FLAGS_X == <<45, 32, 29992, 36884, 21306, 20998, 58, 32, 117, 10,
             45, 32, 35069, 21697, 21517, 58, 32, 112, 10>>
FLAGS_Y == <<45, 32, 29992, 36884, 21306, 20998, 58, 32, 118, 10,
             45, 32, 35069, 21697, 21517, 58, 32, 113, 10>>
CacheEntries == {[subcat |-> NAME_A, group |-> <<88>>, flags |-> FLAGS_X],
                 [subcat |-> NAME_A, group |-> <<89>>, flags |-> FLAGS_Y]}

\* "\n".join(lines), with a last "\n" or without
RECURSIVE JoinLines(_)
JoinLines(lines) ==
    IF lines = <<>> THEN <<>>
    ELSE IF Len(lines) = 1 THEN Head(lines)
    ELSE Head(lines) \o <<NEWLINE>> \o JoinLines(Tail(lines))
Bodies ==
    {JoinLines(lines) : lines \in SeqsUpTo(BodyLines, MaxBodyLines)}
    \cup {JoinLines(lines) \o <<NEWLINE>> : lines \in SeqsUpTo(BodyLines, MaxBodyLines)}

InitFlags ==
    /\ pc = "init"
    /\ CoreIdle
    /\ EarlyIdle
    /\ MergeIdle
    /\ SameIdle
    /\ FeedbackIdle
    /\ \E body \in Bodies :
           \E excel_cache \in SUBSET CacheEntries :
               flag_args = [section |-> [header |-> SECTION_A, name |-> NAME_A,
                                         body |-> body],
                            excel_cache |-> excel_cache]
    /\ flag_out = <<>>
    /\ file_args = <<>>
    /\ file_out = <<>>

\* a call replace_flags(section, excel_cache)
ReplaceFlags ==
    /\ pc = "init"
    /\ flag_out' = replace_flags(flag_args.section, flag_args.excel_cache)
    /\ pc' = "replaced"
    /\ UNCHANGED <<earlyVars, mergeVars, sameVars, feedbackVars>>
    /\ UNCHANGED <<flag_args, file_args, file_out>>

NextFlags == ReplaceFlags

SpecFlags == InitFlags /\ [][NextFlags]_vars

\* the group header lines of a text: the offsets where grp_pat matches
GroupOffsets(text) == {i \in 0..Len(text) : GroupMatch(text, i).end >= 0}

\* the flags of the cache follow the header that ends at offset end
FlagsFollow(text, end, flags) ==
    /\ end <= Len(text)
    /\ text[end] = NEWLINE
    /\ OccursAt(text, flags, end)

\* C25, first half: after a successful call each group header line of the
\* output is immediately followed by the flag lines the cache holds for the
\* subcategory and the group
C25_HeadersGetFlags ==
    (pc = "replaced" /\ flag_out.raised = "none") =>
        \A i \in GroupOffsets(flag_out.text) :
            \A m \in {GroupMatch(flag_out.text, i)} :
                /\ InCache(flag_args.excel_cache, flag_args.section.name, Strip(m.group))
                /\ FlagsFollow(flag_out.text, m.end + 1,
                               CacheGet(flag_args.excel_cache, flag_args.section.name,
                                        Strip(m.group)))

\* C25: after replace_flags(section, cache) succeeds, every group header
\* line of the section is immediately followed by the cache's flag lines for
\* (subcategory, group), and no flag line that the section held before the
\* call (a line "- <label>: o") remains in the output
C25_OldFlagsReplaced ==
    (pc = "replaced" /\ flag_out.raised = "none") =>
        /\ C25_HeadersGetFlags
        /\ ~Contains(flag_out.text, OLD_USAGE)
        /\ ~Contains(flag_out.text, OLD_PRODUCT)

\* the call of the test: a group header, a line of other text, then the old
\* flag lines, with the group in the cache
C25_TestShape ==
    /\ pc = "replaced"
    /\ flag_out.raised = "none"
    /\ flag_args.section.body
         = JoinLines(<<GROUP_X, OTHER_LINE, OLD_USAGE>>) \o <<NEWLINE>>

(***************************************************************************)
(* insert_flags.py: parse_sections, process_file, process_all              *)
(***************************************************************************)
MaxFiles == 2
MaxDirParts == 2

HASH == 35
\* "###" and the word of a section header
SECTION_MARK == <<HASH, HASH, HASH>>
SECTION_WORD == <<12469, 12502, 12459, 12486, 12468, 12522>>
\* the first line of every output file, with its blank line
HEADING == <<35, 35, 32, 50, 46, 32, 12469, 12502, 12459, 12486, 12468, 12522, 21029,
             24195, 21578, 34920, 29694, 12523, 12540, 12523, 10, 10>>

\* header_pat from "###" to the colon, the digit runs ending at d1 and d2:
\* the offset after the colon, -1 for no match
SectionColon(text, c) ==
    IF c < Len(text) /\ text[c + 1] \in {COLON, FW_COLON} THEN c + 1 ELSE -1
SectionWordAt(text, w) ==
    IF OccursAt(text, SECTION_WORD, w)
    THEN SectionColon(text, SpaceRunEnd(text, w + Len(SECTION_WORD)))
    ELSE -1
SectionMinor(text, m, d2) ==
    IF d2 > m THEN SectionWordAt(text, SpaceRunEnd(text, d2)) ELSE -1
SectionMajor(text, n, d1) ==
    IF d1 > n /\ d1 < Len(text) /\ text[d1 + 1] = PERIOD
    THEN SectionMinor(text, d1 + 1, DigitRunEnd(text, d1 + 1))
    ELSE -1
SectionNumber(text, n) == SectionMajor(text, n, DigitRunEnd(text, n))
SectionHead(text, i) ==
    IF IsLineStart(text, i) /\ OccursAt(text, SECTION_MARK, i)
    THEN SectionNumber(text, SpaceRunEnd(text, i + Len(SECTION_MARK)))
    ELSE -1

\* "$" of a MULTILINE pattern
IsLineEnd(text, t) == t = Len(text) \/ text[t + 1] = NEWLINE

\* "\s*$" after a name that ends at offset e: the greatest offset of the
\* whitespace run where a line ends, -1 for none
TailEnd(text, e) ==
    IF \A t \in e..SpaceRunEnd(text, e) : ~IsLineEnd(text, t) THEN -1
    ELSE CHOOSE t \in e..SpaceRunEnd(text, e) :
             /\ IsLineEnd(text, t)
             /\ \A u \in (t + 1)..SpaceRunEnd(text, e) : ~IsLineEnd(text, u)

\* the name ".+?" from offset n0 may end at offset e
NameEndsAt(text, n0, e) ==
    /\ \A k \in n0..(e - 1) : text[k + 1] # NEWLINE
    /\ TailEnd(text, e) >= 0

\* the lazy name that starts at n0: the least end that lets "\s*$" match
NameEnd(text, n0) ==
    IF \A e \in (n0 + 1)..Len(text) : ~NameEndsAt(text, n0, e) THEN -1
    ELSE CHOOSE e \in (n0 + 1)..Len(text) :
             /\ NameEndsAt(text, n0, e)
             /\ \A f \in (n0 + 1)..(e - 1) : ~NameEndsAt(text, n0, f)

\* "\s*" before the name is greedy and gives characters back
RECURSIVE NameFrom(_, _, _)
NameFrom(text, lo, n0) ==
    IF n0 < lo THEN [start |-> -1, end |-> -1]
    ELSE IF NameEnd(text, n0) >= 0 THEN [start |-> n0, end |-> NameEnd(text, n0)]
    ELSE NameFrom(text, lo, n0 - 1)

\* header_pat at offset i: the match object, with end = -1 for no match
SectionMatchAt(text, i, name) ==
    IF name.start < 0 THEN [start |-> i, header |-> <<>>, name |-> <<>>, end |-> -1]
    ELSE [start |-> i,
          header |-> PySliceAny(text, i, name.end),
          name |-> PySliceAny(text, name.start, name.end),
          end |-> TailEnd(text, name.end)]
SectionMatchOf(text, i, colon) ==
    IF colon < 0 THEN [start |-> i, header |-> <<>>, name |-> <<>>, end |-> -1]
    ELSE SectionMatchAt(text, i, NameFrom(text, colon, SpaceRunEnd(text, colon)))
SectionMatch(text, i) == SectionMatchOf(text, i, SectionHead(text, i))

\* list(header_pat.finditer(text)) from offset i on
NextSection(text, i) ==
    IF \A k \in i..(Len(text) - 1) : SectionMatch(text, k).end < 0 THEN -1
    ELSE CHOOSE j \in i..(Len(text) - 1) :
             /\ SectionMatch(text, j).end >= 0
             /\ \A k \in i..(j - 1) : SectionMatch(text, k).end < 0
RECURSIVE SectionMatches(_, _)
SectionMatchesAt(text, j) ==
    IF j < 0 THEN <<>>
    ELSE <<SectionMatch(text, j)>> \o SectionMatches(text, SectionMatch(text, j).end)
SectionMatches(text, i) == SectionMatchesAt(text, NextSection(text, i))

\* the dict of one match: the body runs from the character after the match
\* to the next header or the end of the text
SectionOf(text, matches, idx) ==
    [header |-> matches[idx].header,
     name |-> Strip(matches[idx].name),
     body |-> PySliceAny(text, matches[idx].end + 1,
                         IF idx < Len(matches) THEN matches[idx + 1].start ELSE Len(text))]
SectionsOf(text, matches) == [idx \in 1..Len(matches) |-> SectionOf(text, matches, idx)]
parse_sections(text) == SectionsOf(text, SectionMatches(text, 0))

\* f"{os.path.basename(input_path)}: {e}" for a FlagReplaceError, as the
\* parts the message is made of
FlagError(name, e) ==
    [file |-> name, error |-> e.raised, subcat |-> e.subcat, group |-> e.group]
\* the same for the exception of open() or read()
IoError(name) == [file |-> name, error |-> "OSError", subcat |-> <<>>, group |-> <<>>]

\* a variant that drops a failed section from the output
SectionStep_Dropped(acc, sec, name, done) ==
    IF done.raised = "none" THEN [acc EXCEPT !.out = @ \o done.text]
    ELSE [acc EXCEPT !.errors = Append(@, FlagError(name, done))]

\* the body of the loop over the sections: the text of replace_flags, or
\* the error and the header alone
SectionStep(acc, sec, name, done) ==
    IF done.raised = "none" THEN [acc EXCEPT !.out = @ \o done.text]
    ELSE [errors |-> Append(acc.errors, FlagError(name, done)),
          out |-> acc.out \o sec.header \o <<NEWLINE>>]

RECURSIVE SectionLoop(_, _, _, _, _)
SectionLoop(sections, idx, excel_cache, name, acc) ==
    IF idx > Len(sections) THEN acc
    ELSE SectionLoop(sections, idx + 1, excel_cache, name,
                     SectionStep(acc, sections[idx], name,
                                 replace_flags(sections[idx], excel_cache)))

\* open(output_path, 'w').write(out); an exception goes to the outer handler
WriteOut(file, done) ==
    IF file.io = "write_error"
    THEN [errors |-> Append(done.errors, IoError(file.name)), written |-> <<>>]
    ELSE [errors |-> done.errors, written |-> <<[name |-> file.name, text |-> done.out]>>]

\* process_file(input_path, output_path, excel_cache, logger): the errors
\* returned and the file written, if any
process_file(file, excel_cache) ==
    IF file.io = "read_error"
    THEN [errors |-> <<IoError(file.name)>>, written |-> <<>>]
    ELSE WriteOut(file, SectionLoop(parse_sections(file.text), 1, excel_cache, file.name,
                                    [errors |-> <<>>, out |-> HEADING]))

\* f.lower().endswith('.txt')
DOT_TXT == <<46, 116, 120, 116>>
LowerName(f) == [k \in 1..Len(f) |-> AsciiLower(f[k])]
IsTxt(f) == Len(f) >= Len(DOT_TXT) /\ OccursAt(LowerName(f), DOT_TXT, Len(f) - Len(DOT_TXT))

\* the loop of process_all over the directory listing
FileStep(all, done) ==
    [errors |-> all.errors \o done.errors, written |-> all.written \o done.written]
RECURSIVE FileLoop(_, _, _, _)
FileLoop(listing, idx, excel_cache, all) ==
    IF idx > Len(listing) THEN all
    ELSE IF ~IsTxt(listing[idx].name) THEN FileLoop(listing, idx + 1, excel_cache, all)
    ELSE FileLoop(listing, idx + 1, excel_cache,
                  FileStep(all, process_file(listing[idx], excel_cache)))
process_all(listing, excel_cache) ==
    FileLoop(listing, 1, excel_cache, [errors |-> <<>>, written |-> <<>>])

\* the names of a directory: two that end in .txt in some case, one that
\* does not
NAME_LOWER == <<97, 46, 116, 120, 116>>
NAME_UPPER == <<66, 46, 84, 88, 84>>
NAME_OTHER == <<99, 46, 109, 100>>
FileNames == {NAME_LOWER, NAME_UPPER, NAME_OTHER}
NameLists ==
    {names \in SeqsUpTo(FileNames, MaxFiles) :
        \A a, b \in 1..Len(names) : a # b => names[a] # names[b]}
\* what opening a file does: it works, the input cannot be read or decoded,
\* or the output cannot be opened for writing
IoKinds == {"ok", "read_error", "write_error"}
\* the parts of a file: a section with one group, held by the cache or
\* not, and a further group line
FileParts == {SECTION_A \o <<NEWLINE>> \o GROUP_X, SECTION_A \o <<NEWLINE>> \o GROUP_Y,
              GROUP_Y}
FileCaches == {{}, {e \in CacheEntries : e.group = <<88>>}, CacheEntries}

\* the text of a file: its parts, each line with its "\n"
FileText(parts) == Flatten([k \in 1..Len(parts) |-> parts[k] \o <<NEWLINE>>])

\* one entry of the directory: the parts go to the .txt files, those before
\* the cut to the first of them; a file that is not read has no text here
TxtBefore(names, idx) == Cardinality({k \in 1..(idx - 1) : IsTxt(names[k])})
FileOf(names, idx, parts, cut, ios) ==
    IF ~IsTxt(names[idx]) THEN [name |-> names[idx], io |-> "ok", text |-> <<>>]
    ELSE IF ios[TxtBefore(names, idx) + 1] = "read_error"
    THEN [name |-> names[idx], io |-> "read_error", text |-> <<>>]
    ELSE [name |-> names[idx], io |-> ios[TxtBefore(names, idx) + 1],
          text |-> FileText(IF TxtBefore(names, idx) = 0 THEN SubSeq(parts, 1, cut)
                            ELSE SubSeq(parts, cut + 1, Len(parts)))]
Listing(names, parts, cut, ios) ==
    [idx \in 1..Len(names) |-> FileOf(names, idx, parts, cut, ios)]

InitFiles ==
    /\ pc = "init"
    /\ CoreIdle
    /\ EarlyIdle
    /\ MergeIdle
    /\ SameIdle
    /\ FeedbackIdle
    /\ flag_args = <<>>
    /\ flag_out = <<>>
    /\ \E names \in NameLists :
           \E parts \in SeqsUpTo(FileParts, MaxDirParts) :
               \E cut \in 0..Len(parts) :
                   \E ios \in IoKinds \X IoKinds :
                       \E excel_cache \in FileCaches :
                           file_args = [in_dir |-> Listing(names, parts, cut, ios),
                                        excel_cache |-> excel_cache]
    /\ file_out = <<>>

\* a call process_all(in_dir, out_dir, excel_cache, logger) with an empty
\* output directory
ProcessAll ==
    /\ pc = "init"
    /\ file_out' = process_all(file_args.in_dir, file_args.excel_cache)
    /\ pc' = "processed"
    /\ UNCHANGED <<earlyVars, mergeVars, sameVars, feedbackVars>>
    /\ UNCHANGED <<flag_args, flag_out, file_args>>

NextFiles == ProcessAll

SpecFiles == InitFiles /\ [][NextFiles]_vars

\* what the claim says of one file, stated without the loops: the sections
\* whose lookup fails, the messages for them in section order, and the text
\* with the header alone for each of them
FailedSections(file, excel_cache) ==
    {idx \in 1..Len(parse_sections(file.text)) :
        replace_flags(parse_sections(file.text)[idx], excel_cache).raised # "none"}
SectionText(sec, done) ==
    IF done.raised = "none" THEN done.text ELSE sec.header \o <<NEWLINE>>
ExpectedText(sections, excel_cache) ==
    HEADING \o Flatten([idx \in 1..Len(sections) |->
                          SectionText(sections[idx],
                                      replace_flags(sections[idx], excel_cache))])
\* the messages of the returned list that name the file
ErrorsOf(errors, name) == SelectSeq(errors, LAMBDA e : e.file = name)
\* the files written under the name
WrittenAs(written, name) == {k \in 1..Len(written) : written[k].name = name}

\* the file was written once, with the heading first, the failed sections
\* as their headers and the other sections as replace_flags returns them
WrittenWell(file, excel_cache, written) ==
    /\ Cardinality(WrittenAs(written, file.name)) = 1
    /\ \A k \in WrittenAs(written, file.name) :
           /\ OccursAt(written[k].text, HEADING, 0)
           /\ written[k].text = ExpectedText(parse_sections(file.text), excel_cache)

\* the errors are those of the .txt files, file after file in the order of
\* the listing, and no other file is written
ErrorsInOrder(listing, out) ==
    /\ out.errors = Flatten([idx \in 1..Len(listing) |->
                               IF IsTxt(listing[idx].name)
                               THEN ErrorsOf(out.errors, listing[idx].name)
                               ELSE <<>>])
    /\ \A idx \in 1..Len(listing) :
           ~IsTxt(listing[idx].name) => WrittenAs(out.written, listing[idx].name) = {}

OffsetMap == normalize_text_for_matching(ad_text).mapping

\* match m of rule i is returned: an item of the rule's category at the
\* offsets the code computes for the match, mapping[s] and mapping[e-1] + 1
ItemReturnedAt(i, m, first, last) ==
    /\ first.ok
    /\ last.ok
    /\ \E k \in 1..Len(detect_out.items) :
           /\ detect_out.items[k].category = ng_words[i].category
           /\ detect_out.items[k].start = first.value
           /\ detect_out.items[k].end = last.value + 1
ReportedItem(i, m) ==
    ItemReturnedAt(i, m, ListIndex(OffsetMap, m[1]), ListIndex(OffsetMap, m[2] - 1))

\* match m runs into a returned item: a non-empty match shares a character
\* of the text with it, an empty match lies inside it
OverlapsItem(m) ==
    \E k \in 1..Len(detect_out.items) :
        IF m[1] < m[2]
        THEN /\ detect_out.items[k].start < OffsetMap[m[2]] + 1
             /\ detect_out.items[k].end > OffsetMap[m[1] + 1]
        ELSE /\ m[1] < Len(OffsetMap)
             /\ detect_out.items[k].start < OffsetMap[m[1] + 1]
             /\ detect_out.items[k].end > OffsetMap[m[1] + 1]

\* every match of every rule is returned or runs into a returned item
MatchesAccounted ==
    \A i \in 1..Len(ng_words) : \A m \in MatchesOf(i) : ReportedItem(i, m) \/ OverlapsItem(m)

\* one rule with a literal phrase and one match of it in the masked text:
\* one item is returned, and it is the item of the match
SingleOccurrence ==
    /\ Len(ng_words) = 1
    /\ ng_words[1].original = Escape(ng_words[1].original)
    /\ Cardinality(MatchesOf(1)) = 1
SingleReported ==
    SingleOccurrence =>
        /\ Len(detect_out.items) = 1
        /\ \A m \in MatchesOf(1) : ReportedItem(1, m)

\* what holds of every call that returns: no match is lost without a
\* returned item across it
C26_WhenReturned == Returned => MatchesAccounted /\ SingleReported

\* C26: the detection drops a match only when it overlaps an accepted match:
\* every match of every rule's pattern in the masked text is reported or
\* overlaps a reported item, and one occurrence of one literal phrase gives
\* exactly one item
C26_EveryMatchAccounted ==
    pc = "detected" => MatchesAccounted /\ SingleReported

\* the call of the failing input: the phrases "a" and " " and the text "a"
C26_TestShape ==
    /\ pc = "detected"
    /\ ad_text = <<97>>
    /\ \E i, j \in 1..Len(ng_words) :
           ng_words[i].original = <<97>> /\ ng_words[j].original = <<SPACE>>
    /\ detect_out.raised = "IndexError"

(***************************************************************************)
(* Detection with equally long keys.                                       *)
(***************************************************************************)
MaxTieTextLen == 4
MaxTieRules == 3

\* the phrases "aa", "ab" and "bb": keys of one length
TieRulePool ==
    << Rule(<<97, 97>>, <<>>, "aa"),
       Rule(<<97, 98>>, <<>>, "ab"),
       Rule(<<98, 98>>, <<>>, "bb") >>
\* the rule maps over the pool, in every insertion order
TieRuleMaps ==
    {[k \in 1..Len(order) |-> TieRulePool[order[k]]] :
        order \in {o \in SeqsUpTo(1..Len(TieRulePool), MaxTieRules) :
                      \A a, b \in 1..Len(o) : a # b => o[a] # o[b]}}
TieTexts == SeqsUpTo({97, 98}, MaxTieTextLen)

InitTie ==
    /\ pc = "init"
    /\ PLACEHOLDER_VALUES = TukareTable
    /\ IdleRest
    /\ ad_text \in TieTexts
    /\ ng_words \in TieRuleMaps
    /\ template = <<>>
    /\ placeholders = <<>>
    /\ norm_out = NoNorm
    /\ renorm_out = NoNorm
    /\ mask_out = NoMask
    /\ detect_out = NoDetect
    /\ expand_out = NoExpand

\* the first call, then a second call with the same text and the same rule
\* map
DetectTwice ==
    \E call \in {<<"init", "detected">>, <<"detected", "repeated">>} :
        /\ pc = call[1]
        /\ detect_out' = check_advertisement_with_categories_masking(ad_text, ng_words)
        /\ pc' = call[2]
        /\ UNCHANGED restVars
        /\ UNCHANGED <<ad_text, ng_words, template, placeholders, PLACEHOLDER_VALUES,
                       norm_out, renorm_out, mask_out, expand_out>>

NextTie == DetectTwice

SpecTie == InitTie /\ [][NextTie]_vars

\* the second call returns what the first call returned
SameAgain == (pc = "detected" /\ pc' = "repeated") => detect_out' = detect_out

\* rules i and j have keys of one length and i was inserted first
TiedBefore(i, j) == i < j /\ Len(ng_words[i].original) = Len(ng_words[j].original)

\* of two overlapping matches of tied rules, the first rule's is always the
\* one returned
FirstAlwaysWins ==
    (pc # "init" /\ detect_out.raised = "none") =>
        \A i, j \in 1..Len(ng_words) :
            TiedBefore(i, j) =>
                \A mi \in MatchesOf(i) : \A mj \in MatchesOf(j) :
                    SharesIndex(mi, mj) => Reported(i, mi) /\ ~Reported(j, mj)

\* the same for a match of the first rule that runs across no match accepted
\* before that rule is processed
FirstWinsUnlessTaken ==
    (pc # "init" /\ detect_out.raised = "none") =>
        \A i, j \in 1..Len(ng_words) :
            TiedBefore(i, j) =>
                \A before \in {AcceptedBefore(i)} : \A mi \in MatchesOf(i) :
                    (/\ mi[1] < mi[2]
                     /\ \A k \in 1..Len(before) : ~RunsAcross(mi, before[k])) =>
                        /\ Reported(i, mi)
                        /\ \A mj \in MatchesOf(j) :
                               SharesIndex(mi, mj) => ~Reported(j, mj)

MaxRestLen == 1
MaxDigitSubjectLen == 3

\* the text around the marker: the kana of the test phrase, a space and the
\* bracket of the test phrase "["
RestChars == {12383, SPACE, LBRACK}
Rests == SeqsUpTo(RestChars, MaxRestLen)
\* <before>\d+<after>, and the phrase of test_compile_ng_word_patterns
DigitPhrases ==
    {before \o DigitMarker \o after : before, after \in Rests} \cup {TattaPhrase}

\* the kana, the bracket, and a digit of each width: 1 and full-width 1
DigitSubjectChars == {12383, LBRACK, 49, 65297}
DigitSubjects == SeqsUpTo(DigitSubjectChars, MaxDigitSubjectLen) \cup {TattaSubject}

InitDigits ==
    /\ pc = "init"
    /\ CoreIdle
    /\ CacheIdle
    /\ ExtractIdle
    /\ ContextIdle
    /\ HighlightIdle
    /\ UiIdle
    /\ LateIdle
    /\ phrase_in \in DigitPhrases
    /\ subject \in DigitSubjects
    /\ compile_out = NoCompile
    /\ search_out = NoSearch

NextDigits == Compile \/ Search

SpecDigits == InitDigits /\ [][NextDigits]_vars

\* a half-width or a full-width digit
IsEitherDigit(c) == (c >= 48 /\ c <= 57) \/ (c >= 65296 /\ c <= 65305)
\* a non-empty run of digits of either width
IsDigitRun(run) == Len(run) > 0 /\ \A k \in 1..Len(run) : IsEitherDigit(run[k])

\* the phrase is <before>\d+<after> and neither part holds a backslash
SplitsAt(phrase, k) ==
    /\ OccursAt(phrase, DigitMarker, k)
    /\ \A n \in 1..Len(phrase) : phrase[n] = BACKSLASH => n = k + 1
Before(phrase, k) == SubSeq(phrase, 1, k)
After(phrase, k) == SubSeq(phrase, k + Len(DigitMarker) + 1, Len(phrase))

\* the text between the two parts of the phrase, when the subject is the
\* normalized first part, some text, and the normalized second part
Between(text, before, after) == SubSeq(text, Len(before) + 1, Len(text) - Len(after))
Surrounds(text, before, after) ==
    /\ Len(text) >= Len(before) + Len(after)
    /\ SubSeq(text, 1, Len(before)) = before
    /\ SubSeq(text, Len(text) - Len(after) + 1, Len(text)) = after

\* the pattern matches the whole subject whenever the subject is the
\* normalized <before>, a non-empty run of digits and the normalized <after>
AcceptsDigitRuns ==
    \A k \in 0..Len(phrase_in) :
        SplitsAt(phrase_in, k) =>
            \A before \in {Normalized(Before(phrase_in, k))} :
                \A after \in {Normalized(After(phrase_in, k))} :
                    (/\ Surrounds(subject, before, after)
                     /\ IsDigitRun(Between(subject, before, after))) =>
                        search_out = << <<0, Len(subject)>> >>
\* it matches none of these subjects as a whole
RefusesDigitRuns ==
    \A k \in 0..Len(phrase_in) :
        SplitsAt(phrase_in, k) =>
            \A before \in {Normalized(Before(phrase_in, k))} :
                \A after \in {Normalized(After(phrase_in, k))} :
                    (/\ Surrounds(subject, before, after)
                     /\ IsDigitRun(Between(subject, before, after))) =>
                        search_out # << <<0, Len(subject)>> >>

\* the rest of the phrase is plain text: no character of it has a meaning in
\* a regular expression
PlainRest(phrase) == \A n \in 1..Len(phrase) : phrase[n] # LBRACK
\* the rewritten phrase is not a regular expression: the pattern returned
\* is the escaped normalized phrase
FellBack(phrase) == ~ReCompile(PatternStr(Normalized(phrase))).ok

\* C28 as stated: the pattern of a phrase <before>\d+<after> accepts the
\* normalized <before>, any non-empty run of digits of either width, and
\* the normalized <after>
C28_DigitRunAccepted == pc = "searched" => AcceptsDigitRuns

\* C28: the same when the rest of the phrase is plain text; when the
\* rewritten phrase is not a valid regular expression, the pattern is the
\* escaped literal and accepts no run of digits at the marker
C28_DigitRunAcceptedIfPlain ==
    pc = "searched" =>
        /\ PlainRest(phrase_in) => AcceptsDigitRuns
        /\ FellBack(phrase_in) => RefusesDigitRuns

\* the phrase has text before and after the marker, and the subject holds
\* a full-width digit between the two
C28_Witness ==
    /\ pc = "searched"
    /\ PlainRest(phrase_in)
    /\ \E k \in 1..Len(phrase_in) :
           /\ SplitsAt(phrase_in, k)
           /\ After(phrase_in, k) # <<>>
           /\ Normalized(Before(phrase_in, k)) # Before(phrase_in, k)
           /\ Surrounds(subject, Normalized(Before(phrase_in, k)),
                        Normalized(After(phrase_in, k)))
           /\ Between(subject, Normalized(Before(phrase_in, k)),
                      Normalized(After(phrase_in, k))) = <<65297>>
    /\ search_out = << <<0, Len(subject)>> >>

\* the phrase and the text of test_compile_ng_word_patterns
C28_TestPhrase ==
    (pc = "searched" /\ phrase_in = TattaPhrase /\ subject = TattaSubject) =>
        search_out = << <<0, Len(TattaSubject)>> >>

(***************************************************************************)
(* A further claim about extract_ng_data_from_subcategories.               *)
(***************************************************************************)
\* the expanded words of the data that are empty or hold whitespace alone
BlankWord(word) == \A k \in 1..Len(word) : IsSpaceChar(word[k])

\* the other phrases of the data are records of the map
OthersInserted ==
    \A k \in 1..Len(ExpandedWords(subcategory_data, PLACEHOLDER_VALUES)) :
        \A w \in {ExpandedWords(subcategory_data, PLACEHOLDER_VALUES)[k]} :
            ~BlankWord(w.final_word) =>
                \E r \in 1..Len(extract_out.ng_words) :
                    extract_out.ng_words[r].original = w.final_word

\* C29: the rule map holds no record for an expanded phrase that is empty
\* or blank, the other phrases of the entry are inserted, and no record has
\* a key whose matching-normalized form is empty
C29_NoBlankKey ==
    (pc = "extracted" /\ extract_out.raised = "none") =>
        /\ \A r \in 1..Len(extract_out.ng_words) :
               /\ ~BlankWord(extract_out.ng_words[r].original)
               /\ Normalized(extract_out.ng_words[r].original) # <<>>
        /\ OthersInserted

\* the same for the empty phrase alone
C29_NoEmptyKey ==
    (pc = "extracted" /\ extract_out.raised = "none") =>
        /\ \A r \in 1..Len(extract_out.ng_words) : extract_out.ng_words[r].original # <<>>
        /\ OthersInserted

\* the call of the failing input: an entry with the words "", " " and "c"
C29_TestShape ==
    /\ pc = "extracted"
    /\ extract_out.raised = "none"
    /\ \E r \in 1..Len(extract_out.ng_words) : extract_out.ng_words[r].original = <<SPACE>>

(***************************************************************************)
(* The excerpt of a returned item and the normalized text.                 *)
(***************************************************************************)
\* the normalized text of the text handed to the call
NormalizedText == normalize_text_for_matching(ad_text).text

\* a character that normalization keeps
Survives(c) == normalize_text_for_matching(<<c>>).text # <<>>

\* the items the code builds from the accepted match m: the offsets are
\* mapping[s] and mapping[e-1] + 1
ItemsOfMatch(m, first, last) ==
    {k \in 1..Len(detect_out.items) :
        /\ first.ok
        /\ last.ok
        /\ detect_out.items[k].start = first.value
        /\ detect_out.items[k].end = last.value + 1}
ItemsOf(m) ==
    ItemsOfMatch(m, ListIndex(OffsetMap, m[1]), ListIndex(OffsetMap, m[2] - 1))

\* the excerpt of item k normalizes to the matched span m of the normalized
\* text, and it begins and ends with a character that survives
ExcerptNormalizesTo(k, m) ==
    LET excerpt == detect_out.items[k].expression
    IN  /\ normalize_text_for_matching(excerpt).text = Slice(NormalizedText, m[1], m[2])
        /\ excerpt # <<>>
        /\ Survives(excerpt[1])
        /\ Survives(excerpt[Len(excerpt)])
        /\ excerpt = Slice(ad_text, detect_out.items[k].start, detect_out.items[k].end)

ExcerptsNormalize ==
    \A a \in 1..Len(detect_out.accepted) :
        /\ ItemsOf(detect_out.accepted[a]) # {}
        /\ \A k \in ItemsOf(detect_out.accepted[a]) :
               ExcerptNormalizesTo(k, detect_out.accepted[a])

\* every accepted match holds a character
NoEmptyMatch ==
    \A a \in 1..Len(detect_out.accepted) :
        detect_out.accepted[a][1] < detect_out.accepted[a][2]

\* what holds of the calls whose accepted matches are not empty
C30_WhenNotEmpty == (Returned /\ NoEmptyMatch) => ExcerptsNormalize

\* C30: the excerpt of every item produced from an accepted match [s,e)
\* normalizes to normalizedText[s:e]; it begins and ends with a character
\* that survives normalization, and whitespace dropped inside the span is
\* part of the excerpt and of [start, end)
C30_ExcerptNormalizesToMatch == Returned => ExcerptsNormalize

\* the call of the failing input: the phrase "^" and the text "a b"
C30_TestShape ==
    /\ Returned
    /\ ad_text = <<97, SPACE, 98>>
    /\ Len(ng_words) = 1
    /\ ng_words[1].original = <<CARET>>
    /\ Len(detect_out.items) = 1
    /\ detect_out.items[1].expression = <<97, SPACE, 98>>

\* a call where whitespace dropped inside the span is part of the excerpt
C30_BlankInside ==
    /\ Returned
    /\ NoEmptyMatch
    /\ \E k \in 1..Len(detect_out.items) :
           \E j \in 1..Len(detect_out.items[k].expression) :
               detect_out.items[k].expression[j] = SPACE

====
